---- MODULE Spec2Model ----
(***************************************************************************)
(* The DefectDojo uploader scripts of scripts/:                            *)
(*   dast-defectdojo-enhanced.py      ("dast")                             *)
(*   upload-reports-enhanced.py       ("enh")                              *)
(*   zap-xml-defectdojo-uploader.py   ("xml")                              *)
(* SpecFn exercises the pure parts (mappers, finding extraction, report    *)
(* parsing) on inputs drawn in Init.  Spec runs whole invocations of the   *)
(* scripts against a remote DefectDojo whose products and engagements      *)
(* persist from one invocation to the next.                                *)
(***************************************************************************)
EXTENDS Integers, Sequences, FiniteSets, TLC

VARIABLES
    call,       \* SpecFn: the function applied and its argument
    ret,        \* SpecFn: what the function returned
    script,     \* Spec: the script of the running invocation
    pc,         \* Spec: position of the running invocation
    files,      \* Spec: sys.argv[4:], the report files of the invocation
    idx,        \* Spec: number of report files the loop has gone through
    product_id, \* Spec: result of create_product_if_not_exists
    engagement_id, \* Spec: result of create_(dast_)engagement_if_not_exists
    engagement_name, \* Spec: self.engagement_name
    counters,   \* Spec: successful_uploads / failed_uploads / total_findings_uploaded
    http,       \* Spec: the HTTP requests of the invocation, in order
    exit_code,  \* Spec: the exit status of the finished invocation
    traceback,  \* Spec: an exception left the script uncaught
    remote,     \* Spec: the products and engagements DefectDojo holds
    dast_scan_type_id, \* Spec: self.dast_scan_type_id of the dast script
    runs        \* Spec: invocations started so far

vars == <<call, ret, script, pc, files, idx, product_id, engagement_id,
          engagement_name, counters, http, exit_code, traceback, remote,
          dast_scan_type_id, runs>>

fnVars == <<call, ret>>

runVars == <<script, pc, files, idx, product_id, engagement_id, engagement_name,
             counters, http, exit_code, traceback, remote, dast_scan_type_id, runs>>

(***************************************************************************)
(* Bounds of the model.                                                    *)
(***************************************************************************)
MaxSites == 2

MaxAlerts == 3

MaxRuns == 2

MaxFiles == 2

(***************************************************************************)
(* Python values.  A str that the code parses (cweid, pluginid, riskcode,  *)
(* confidence) is a tuple of one-character strings; a str that is only     *)
(* compared or looked up (name, risk, reference) is a TLA+ string.         *)
(***************************************************************************)
PyNone == [kind |-> "none"]

PyIntV(n) == [kind |-> "int", n |-> n]

PyStr(s) == [kind |-> "str", s |-> s]

PyChars(cs) == [kind |-> "chars", cs |-> cs]

Digits == {"0", "1", "2", "3", "4", "5", "6", "7", "8", "9"}

DigitVal(c) ==
    CASE c = "0" -> 0 [] c = "1" -> 1 [] c = "2" -> 2 [] c = "3" -> 3
      [] c = "4" -> 4 [] c = "5" -> 5 [] c = "6" -> 6 [] c = "7" -> 7
      [] c = "8" -> 8 [] c = "9" -> 9

RECURSIVE DigitsValue(_)
DigitsValue(cs) ==
    IF cs = <<>> THEN 0
    ELSE DigitsValue(SubSeq(cs, 1, Len(cs) - 1)) * 10 + DigitVal(cs[Len(cs)])

AllDigits(cs) == cs # <<>> /\ \A i \in 1..Len(cs) : cs[i] \in Digits

\* str.isdigit()
isdigit(cs) == AllDigits(cs)

\* int(str): an optional sign, then decimal digits; anything else raises
\* ValueError (ok = FALSE).
PyInt(cs) ==
    IF AllDigits(cs) THEN [ok |-> TRUE, n |-> DigitsValue(cs)]
    ELSE IF cs # <<>> /\ cs[1] \in {"-", "+"} /\ AllDigits(Tail(cs))
         THEN [ok |-> TRUE,
               n |-> IF cs[1] = "-" THEN 0 - DigitsValue(Tail(cs))
                     ELSE DigitsValue(Tail(cs))]
         ELSE [ok |-> FALSE]

\* dict.get(key, default) on a dict given as a set of <<key, value>> pairs
DictHas(d, k) == \E p \in d : p[1] = k

DictGet(d, k, default) ==
    IF DictHas(d, k) THEN (CHOOSE p \in d : p[1] = k)[2] ELSE default

\* alert.get(key, default) on a JSON object whose present keys are alert.keys
Get(obj, k, default) == IF k \in obj.keys THEN obj[k] ELSE default

\* truthiness of alert.get(key) for a str-valued key (None when absent)
Truthy(obj, k, empty) == k \in obj.keys /\ obj[k] # empty

(***************************************************************************)
(* 4.1 Risk / confidence mappers.                                          *)
(***************************************************************************)
SeverityEnum == {"Critical", "High", "Medium", "Low", "Info"}

ConfidenceEnum == {"High", "Medium", "Low"}

dast_risk_mapping ==
    { <<"High", "Critical">>, <<"Medium", "High">>, <<"Low", "Medium">>,
      <<"Informational", "Low">> }

dast_map_zap_risk_to_severity_keeps_critical(zap_risk) ==
    IF zap_risk = "Critical" THEN "Critical"
    ELSE DictGet(dast_risk_mapping, zap_risk, "Info")

dast_map_zap_risk_to_severity_echo(zap_risk) ==
    DictGet(dast_risk_mapping, zap_risk, zap_risk)

\* DASTDefectDojoUploader.map_zap_risk_to_severity
dast_map_zap_risk_to_severity(zap_risk) ==
    DictGet(dast_risk_mapping, zap_risk, "Info")

enh_risk_mapping ==
    { <<"High", "High">>, <<"Critical", "Critical">>, <<"Medium", "Medium">>,
      <<"Low", "Low">>, <<"Informational", "Info">> }

enh_map_zap_risk_to_severity_default_info(zap_risk) ==
    DictGet(enh_risk_mapping, zap_risk, "Info")

\* DefectDojoUploader.map_zap_risk_to_severity
enh_map_zap_risk_to_severity(zap_risk) ==
    DictGet(enh_risk_mapping, zap_risk, "Low")

\* ZAPXMLDefectDojoUploader.severity_mapping
xml_severity_mapping ==
    { <<"High", "High">>, <<"Critical", "Critical">>, <<"Medium", "Medium">>,
      <<"Low", "Low">>, <<"Informational", "Info">> }

\* severity = self.severity_mapping.get(risk_level, 'Low')
xml_severity_of(risk_level) == DictGet(xml_severity_mapping, risk_level, "Low")

\* ZAPXMLDefectDojoUploader._map_risk_code_to_level: int(risk_code), ValueError -> 'Low'
map_risk_code_to_level(risk_code) ==
    LET code == PyInt(risk_code) IN
    IF ~code.ok THEN "Low"
    ELSE IF code.n >= 4 THEN "High"
    ELSE IF code.n = 3 THEN "Medium"
    ELSE IF code.n = 2 THEN "Low"
    ELSE "Informational"

\* ZAPXMLDefectDojoUploader._map_confidence_to_level
map_confidence_to_level(confidence) ==
    LET conf == PyInt(confidence) IN
    IF ~conf.ok THEN "Low"
    ELSE IF conf.n >= 4 THEN "High"
    ELSE IF conf.n = 3 THEN "Medium"
    ELSE "Low"

determine_confidence_from_severity(alert) ==
    LET severity == dast_map_zap_risk_to_severity(Get(alert, "risk", "Low"))
        plugin_id == Get(alert, "pluginid", <<>>)
    IN  IF severity = "High" THEN "High"
        ELSE IF severity = "Medium" THEN "Medium"
        ELSE IF plugin_id # <<>> THEN "Medium"
        ELSE "Low"

\* DASTDefectDojoUploader._determine_confidence
determine_confidence(alert) ==
    LET risk == Get(alert, "risk", "Low")
        plugin_id == Get(alert, "pluginid", <<>>)
    IN  IF risk = "High" THEN "High"
        ELSE IF risk = "Medium" THEN "Medium"
        ELSE IF plugin_id # <<>> THEN "Medium"
        ELSE "Low"

(***************************************************************************)
(* 4.2 OWASP category mappers.                                             *)
(***************************************************************************)
dast_owasp_mapping ==
    { <<"WASC-1", "Path Traversal">>, <<"WASC-2", "SQL Injection">>,
      <<"WASC-3", "XSS">>, <<"WASC-4", "Cross-Site Request Forgery">>,
      <<"WASC-5", "Server-Side Include">>, <<"WASC-6", "Session Hijacking">>,
      <<"WASC-7", "Buffer Overflow">>, <<"WASC-8", "Weak Authentication">>,
      <<"WASC-9", "Transport Layer Security">>,
      <<"WASC-10", "Insecure Cryptographic Storage">>,
      <<"WASC-11", "Insufficient Authorization">>,
      <<"WASC-12", "Denial of Service">>,
      <<"WASC-13", "Improper Input Validation">>,
      <<"WASC-14", "Information Leakage">>,
      <<"WASC-15", "Broken Authentication">>,
      <<"WASC-16", "Broken Access Control">>,
      <<"WASC-17", "Server-Side Request Forgery">>,
      <<"WASC-18", "XML External Entity">>,
      <<"WASC-19", "Insecure Deserialization">>,
      <<"WASC-20", "Security Misconfiguration">> }

\* DASTDefectDojoUploader.extract_owasp_category:
\*   owasp_mapping.get(reference, reference or "Other")
extract_owasp_category(reference) ==
    IF reference = "" THEN "Unknown"
    ELSE DictGet(dast_owasp_mapping, reference,
                 IF reference # "" THEN reference ELSE "Other")

enh_owasp_mapping ==
    { <<"Cross Site Scripting", "A03:2021-Injection">>,
      <<"SQL Injection", "A03:2021-Injection">>,
      <<"X-Content-Type-Options header missing", "A05:2021-Security Misconfiguration">>,
      <<"Cookie without SameSite Attribute", "A05:2021-Security Misconfiguration">>,
      <<"CSP Scanner: Content Security Policy Not Implemented",
        "A05:2021-Security Misconfiguration">>,
      <<"X-Frame-Options header not set", "A05:2021-Security Misconfiguration">>,
      <<"Absence of Anti-CSRF Tokens", "A01:2021-Broken Access Control">>,
      <<"Cross Domain Script Inclusion", "A05:2021-Security Misconfiguration">>,
      <<"Content Type Missing", "A05:2021-Security Misconfiguration">>,
      <<"Cookie without Secure Flag", "A05:2021-Security Misconfiguration">> }

\* DefectDojoUploader.get_owasp_mapping: owasp_mapping.get(alert_name, None)
get_owasp_mapping(alert_name) ==
    IF DictHas(enh_owasp_mapping, alert_name)
    THEN PyStr(DictGet(enh_owasp_mapping, alert_name, ""))
    ELSE PyNone

\* ZAPXMLDefectDojoUploader.owasp_mapping
xml_owasp_mapping ==
    { <<"Cross Site Scripting", "A01:2021-Broken Access Control">>,
      <<"Cross Domain Script Inclusion", "A01:2021-Broken Access Control">>,
      <<"Absence of Anti-CSRF Tokens", "A01:2021-Broken Access Control">>,
      <<"CSP Scanner: Content Security Policy Not Implemented",
        "A01:2021-Broken Access Control">>,
      <<"Cookie without SameSite Attribute", "A01:2021-Broken Access Control">>,
      <<"SQL Injection", "A03:2021-Injection">>,
      <<"Command Injection", "A03:2021-Injection">>,
      <<"LDAP Injection", "A03:2021-Injection">>,
      <<"XPath Injection", "A03:2021-Injection">>,
      <<"Server Side Include", "A03:2021-Injection">>,
      <<"Insecure Design", "A04:2021-Insecure Design">>,
      <<"X-Content-Type-Options header missing", "A05:2021-Security Misconfiguration">>,
      <<"X-Frame-Options header not set", "A05:2021-Security Misconfiguration">>,
      <<"Content Type Missing", "A05:2021-Security Misconfiguration">>,
      <<"Cookie without Secure Flag", "A05:2021-Security Misconfiguration">>,
      <<"Reverse Tabnabbing", "A05:2021-Security Misconfiguration">>,
      <<"Cookie without HttpOnly Flag", "A05:2021-Security Misconfiguration">>,
      <<"Outdated Component", "A06:2021-Vulnerable and Outdated Components">>,
      <<"Vulnerable Component", "A06:2021-Vulnerable and Outdated Components">>,
      <<"Authentication Bypass", "A07:2021-Identification and Authentication Failures">>,
      <<"Weak Authentication", "A07:2021-Identification and Authentication Failures">>,
      <<"Session Fixation", "A07:2021-Identification and Authentication Failures">>,
      <<"Software and Data Integrity Failures",
        "A08:2021-Software and Data Integrity Failures">>,
      <<"Insecure Deserialization", "A08:2021-Software and Data Integrity Failures">>,
      <<"Security Logging and Monitoring Failures",
        "A09:2021-Security Logging and Monitoring Failures">>,
      <<"Server Side Request Forgery", "A10:2021-Server-Side Request Forgery">> }

\* 'owasp_top_10': self.owasp_mapping.get(alert_name)
xml_owasp_of(alert_name) ==
    IF DictHas(xml_owasp_mapping, alert_name)
    THEN PyStr(DictGet(xml_owasp_mapping, alert_name, ""))
    ELSE PyNone

DictKeys(d) == { p[1] : p \in d }

DictValues(d) == { p[2] : p \in d }

(***************************************************************************)
(* 3. Data model: the alerts of a ZAP report.  An alert is a JSON object   *)
(* (or, in the XML export, an <alertitem> with one child element per       *)
(* field); keys holds the fields that are present.                         *)
(***************************************************************************)
Inst1 ==
    [keys |-> {"uri", "method", "param", "evidence"}, uri |-> "http://target/a",
     method |-> "GET", param |-> "id", attack |-> "", evidence |-> "ev"]

Inst2 ==
    [keys |-> {"uri"}, uri |-> "http://target/b",
     method |-> "", param |-> "", attack |-> "", evidence |-> ""]

AllKeys ==
    {"name", "desc", "pluginid", "risk", "riskcode", "confidence", "cweid",
     "reference", "instances"}

AlertSqli ==
    [keys |-> AllKeys, name |-> "SQL Injection", pluginid |-> <<"4", "0">>,
     risk |-> "High", riskcode |-> <<"3">>, confidence |-> <<"3">>,
     cweid |-> <<"8", "9">>, reference |-> "WASC-19", desc |-> "SQL injection may be possible",
     instances |-> <<Inst1>>]

AlertXfo ==
    [keys |-> AllKeys, name |-> "X-Frame-Options header not set",
     pluginid |-> <<"1", "0">>, risk |-> "Medium", riskcode |-> <<"2">>,
     confidence |-> <<"4">>, cweid |-> <<"-", "1">>,
     reference |-> "https://owasp.org/x", desc |-> "The response can be framed",
     instances |-> <<Inst1, Inst2>>]

AlertNan ==
    [keys |-> AllKeys, name |-> "Cookie without Secure Flag",
     pluginid |-> <<"1", "1">>, risk |-> "Low", riskcode |-> <<"1">>,
     confidence |-> <<"2">>, cweid |-> <<"n", "a", "n">>,
     reference |-> "", desc |-> "A cookie lacks the secure flag",
     instances |-> <<Inst2>>]

AlertCustom ==
    [keys |-> AllKeys \ {"reference"}, name |-> "Custom Alert",
     pluginid |-> <<"9">>, risk |-> "Informational", riskcode |-> <<"0">>,
     confidence |-> <<"x">>, cweid |-> <<"0">>,
     reference |-> "", desc |-> "",
     instances |-> <<Inst2>>]

AlertNoInst ==
    [keys |-> AllKeys, name |-> "Cross Site Scripting", pluginid |-> <<"4", "1">>,
     risk |-> "High", riskcode |-> <<"4">>, confidence |-> <<"3">>,
     cweid |-> <<"7", "9">>, reference |-> "WASC-8", desc |-> "Script can be injected",
     instances |-> <<>>]

AlertBare ==
    [keys |-> {"pluginid", "instances"}, name |-> "", pluginid |-> <<"5">>,
     risk |-> "", riskcode |-> <<>>, confidence |-> <<>>, cweid |-> <<>>,
     reference |-> "", desc |-> "",
     instances |-> <<Inst1>>]

AlertNoPlugin ==
    [keys |-> {"name", "risk", "cweid", "riskcode"}, name |-> "Weak Authentication",
     pluginid |-> <<>>, risk |-> "Bogus", riskcode |-> <<"x">>,
     confidence |-> <<>>, cweid |-> <<>>, reference |-> "", desc |-> "",
     instances |-> <<>>]

AlertPool ==
    {AlertSqli, AlertXfo, AlertNan, AlertCustom, AlertNoInst, AlertBare, AlertNoPlugin}

\* A report is the list of its sites, a site the list of its alerts.
RECURSIVE SumSeq(_)
SumSeq(ns) == IF ns = <<>> THEN 0 ELSE ns[1] + SumSeq(Tail(ns))

SiteSizes ==
    { sz \in UNION { [1..s -> 0..MaxAlerts] : s \in 0..MaxSites } :
        SumSeq(sz) <= MaxAlerts }

\* the sites of sizes sz over the alerts fl, in document order
BuildReport(sz, fl) ==
    [ i \in 1..Len(sz) |->
        [alerts |-> [ j \in 1..sz[i] |-> fl[SumSeq(SubSeq(sz, 1, i - 1)) + j] ]] ]

\* the reports over the alerts of pool
ReportsOf(pool) ==
    UNION { { BuildReport(sz, fl) : fl \in [1..SumSeq(sz) -> pool] } :
            sz \in SiteSizes }

(***************************************************************************)
(* 4.3 Finding extractor, 4.4 report parser.                               *)
(***************************************************************************)
\* [f(a) for a in alerts if f(a)]: the results that are not None, in order
RECURSIVE Somes(_)
Somes(results) ==
    IF results = <<>> THEN <<>>
    ELSE (IF results[1] = PyNone THEN <<>> ELSE <<results[1]>>) \o Somes(Tail(results))

\* the alerts of every site, in document order
RECURSIVE AllSiteAlerts(_)
AllSiteAlerts(sites) ==
    IF sites = <<>> THEN <<>> ELSE sites[1].alerts \o AllSiteAlerts(Tail(sites))

\* cwe_id = int(alert.get('cweid', 0)) if alert.get('cweid') else 0
dast_cwe_id(alert) ==
    IF Truthy(alert, "cweid", <<>>) THEN PyInt(alert.cweid)
    ELSE [ok |-> TRUE, n |-> 0]

\* str.lower() on the risk labels and on the category labels of the report
\* data; the remaining strings of the data hold no upper-case letter
lower_table ==
    { <<"High", "high">>, <<"Medium", "medium">>, <<"Low", "low">>,
      <<"Informational", "informational">>, <<"Bogus", "bogus">>,
      <<"Critical", "critical">>, <<"Unknown", "unknown">> }

lower(s) == DictGet(lower_table, s, s)

\* owasp_category.lower().replace(' ', '-') on the category labels; a
\* reference echoed as category holds neither upper case nor blanks
slug_table ==
    ("Path Traversal" :> "path-traversal")
      @@ ("SQL Injection" :> "sql-injection")
      @@ ("XSS" :> "xss")
      @@ ("Cross-Site Request Forgery" :> "cross-site-request-forgery")
      @@ ("Server-Side Include" :> "server-side-include")
      @@ ("Session Hijacking" :> "session-hijacking")
      @@ ("Buffer Overflow" :> "buffer-overflow")
      @@ ("Weak Authentication" :> "weak-authentication")
      @@ ("Transport Layer Security" :> "transport-layer-security")
      @@ ("Insecure Cryptographic Storage" :> "insecure-cryptographic-storage")
      @@ ("Insufficient Authorization" :> "insufficient-authorization")
      @@ ("Denial of Service" :> "denial-of-service")
      @@ ("Improper Input Validation" :> "improper-input-validation")
      @@ ("Information Leakage" :> "information-leakage")
      @@ ("Broken Authentication" :> "broken-authentication")
      @@ ("Broken Access Control" :> "broken-access-control")
      @@ ("Server-Side Request Forgery" :> "server-side-request-forgery")
      @@ ("XML External Entity" :> "xml-external-entity")
      @@ ("Insecure Deserialization" :> "insecure-deserialization")
      @@ ("Security Misconfiguration" :> "security-misconfiguration")

slug(category) ==
    IF category \in DOMAIN slug_table THEN slug_table[category] ELSE lower(category)

BaseTags ==
    << [tag |-> "dast"], [tag |-> "zap"], [tag |-> "automated"],
       [tag |-> "dynamic-analysis"] >>

generate_finding_tags_no_owasp(alert, owasp_category) ==
    BaseTags
      \o (IF lower(Get(alert, "risk", "")) # ""
          THEN << [tag |-> "risk-", level |-> lower(Get(alert, "risk", ""))] >>
          ELSE <<>>)
      \o (IF Get(alert, "pluginid", <<>>) # <<>>
          THEN << [tag |-> "plugin-", id |-> Get(alert, "pluginid", <<>>)] >>
          ELSE <<>>)

\* DASTDefectDojoUploader._generate_finding_tags: a tag is its prefix and the
\* text formatted after it
generate_finding_tags(alert, owasp_category) ==
    BaseTags
      \o (IF owasp_category # "" /\ owasp_category # "Unknown"
          THEN << [tag |-> "owasp-", category |-> slug(owasp_category)] >>
          ELSE <<>>)
      \o (IF lower(Get(alert, "risk", "")) # ""
          THEN << [tag |-> "risk-", level |-> lower(Get(alert, "risk", ""))] >>
          ELSE <<>>)
      \o (IF Get(alert, "pluginid", <<>>) # <<>>
          THEN << [tag |-> "plugin-", id |-> Get(alert, "pluginid", <<>>)] >>
          ELSE <<>>)

\* the tech_details list: one line per non-empty field of the instance
TechFields ==
    << <<"method", "HTTP Method: ">>, <<"param", "Parameter: ">>,
       <<"attack", "Attack Pattern: ">>, <<"evidence", "Evidence: ">> >>

RECURSIVE tech_details(_, _)
tech_details(instance, fields) ==
    IF fields = <<>> THEN <<>>
    ELSE (IF Truthy(instance, fields[1][1], "")
          THEN << "- ", fields[1][2], instance[fields[1][1]], "\n" >>
          ELSE <<>>)
         \o tech_details(instance, Tail(fields))

build_enhanced_description_always_details(alert, instance) ==
    << Get(alert, "desc", ""), "\n\n**Technical Details:**\n" >>
      \o tech_details(instance, TechFields)
      \o (IF Truthy(alert, "reference", "")
          THEN << "\n\n**Reference:** ", alert.reference >>
          ELSE <<>>)

\* DASTDefectDojoUploader._build_enhanced_description: the description is
\* the list of the strings concatenated into it
build_enhanced_description(alert, instance) ==
    << Get(alert, "desc", "") >>
      \o (IF tech_details(instance, TechFields) # <<>>
          THEN << "\n\n**Technical Details:**\n" >>
               \o tech_details(instance, TechFields)
          ELSE <<>>)
      \o (IF Truthy(alert, "reference", "")
          THEN << "\n\n**Reference:** ", alert.reference >>
          ELSE <<>>)

\* DASTDefectDojoUploader._create_finding_from_alert
create_finding_from_alert(alert) ==
    LET instances == Get(alert, "instances", <<>>)
        owasp_category == extract_owasp_category(Get(alert, "reference", ""))
        cwe_id == dast_cwe_id(alert)
    IN  IF instances = <<>> THEN PyNone
        ELSE IF ~cwe_id.ok THEN PyNone      \* except Exception: return None
        ELSE [kind |-> "finding",
              title |-> Get(alert, "name", "Unknown ZAP Finding"),
              severity |-> dast_map_zap_risk_to_severity(Get(alert, "risk", "Low")),
              cwe |-> PyIntV(cwe_id.n),
              owasp |-> owasp_category,
              references |-> Get(alert, "reference", ""),
              confidence |-> determine_confidence(alert),
              description |-> build_enhanced_description(alert, instances[1]),
              tags |-> generate_finding_tags(alert, owasp_category)]

dast_site_alerts_all(sites) == AllSiteAlerts(sites)

\* sites = zap_data.get('site', []); site = sites[0]; alerts = site.get('alerts', [])
dast_site_alerts(sites) == IF Len(sites) > 0 THEN sites[1].alerts ELSE <<>>

\* DASTDefectDojoUploader.process_zap_dast_report on the parsed zap_data:
\* the findings of upload_data
dast_process_findings(sites) ==
    Somes([ i \in 1..Len(dast_site_alerts(sites)) |-> create_finding_from_alert(dast_site_alerts(sites)[i]) ])

\* the finding dict built in DefectDojoUploader.process_zap_dast_report;
\* 'cwe': int(alert.get('cweid', 0)) if alert.get('cweid') else None
enh_cwe(alert) ==
    IF Truthy(alert, "cweid", <<>>) THEN PyInt(alert.cweid)
    ELSE [ok |-> TRUE, none |-> TRUE]

enh_finding(alert) ==
    LET instances == Get(alert, "instances", <<>>)
        cwe == enh_cwe(alert)
    IN  IF instances = <<>> THEN PyNone
        ELSE [kind |-> "finding",
              title |-> Get(alert, "name", "Unknown ZAP Finding"),
              severity |-> enh_map_zap_risk_to_severity(Get(alert, "risk", "Low")),
              cwe |-> IF ~cwe.ok THEN [kind |-> "raise"]
                      ELSE IF "none" \in DOMAIN cwe THEN PyNone ELSE PyIntV(cwe.n),
              impact |-> Get(alert, "risk", "Low"),
              confidence |-> "High",
              owasp_top_10 |-> get_owasp_mapping(Get(alert, "name", ""))]

enh_site_alerts(sites) == IF Len(sites) > 0 THEN sites[1].alerts ELSE <<>>

\* the extraction loop of DefectDojoUploader.process_zap_dast_report: a
\* ValueError of int() leaves the loop for the function's except clause
enh_extract_findings(sites) ==
    LET built == Somes([ i \in 1..Len(enh_site_alerts(sites)) |-> enh_finding(enh_site_alerts(sites)[i]) ]) IN
    IF \E i \in 1..Len(built) : built[i].cwe = [kind |-> "raise"]
    THEN [raised |-> TRUE, findings |-> <<>>]
    ELSE [raised |-> FALSE, findings |-> built]

\* xml.etree.ElementTree.Element, the element class the script imports, has
\* no attribute nsmap: reading element.nsmap raises AttributeError
ElementHasNsmap == FALSE

CharTags == {"pluginid", "riskcode", "confidence", "cweid"}

EmptyText(tag) == IF tag \in CharTags THEN <<>> ELSE ""

\* ZAPXMLDefectDojoUploader._get_xml_text:
\*   found = element.find(f'.//zap:{tag}', {'zap': element.nsmap.get('zap', '')})
\*   return found.text if found is not None and found.text else default
get_xml_text(element, tag, default) ==
    IF ~ElementHasNsmap THEN [raised |-> TRUE]
    ELSE [raised |-> FALSE,
          text |-> IF tag \in element.keys /\ element[tag] # EmptyText(tag)
                   THEN element[tag] ELSE default]

\* int(x) if x and x.isdigit() else None
xml_int_or_none(cs) == IF cs # <<>> /\ isdigit(cs) THEN PyIntV(PyInt(cs).n) ELSE PyNone

\* ZAPXMLDefectDojoUploader._extract_finding_from_alert
xml_extract_finding_from_alert(alert) ==
    LET plugin_id == get_xml_text(alert, "pluginid", <<>>)
        alert_name == get_xml_text(alert, "name", "")
        risk_code == get_xml_text(alert, "riskcode", <<>>)
        confidence == get_xml_text(alert, "confidence", <<>>)
        reference == get_xml_text(alert, "reference", "")
        cwe_id == get_xml_text(alert, "cweid", <<>>)
        raised == \/ plugin_id.raised \/ alert_name.raised \/ risk_code.raised
                  \/ confidence.raised \/ reference.raised \/ cwe_id.raised
        risk_level == map_risk_code_to_level(risk_code.text)
        instances == Get(alert, "instances", <<>>)
    IN  IF raised THEN PyNone                 \* except Exception: return None
        ELSE IF alert_name.text = "" \/ plugin_id.text = <<>> THEN PyNone
        ELSE [kind |-> "finding",
              title |-> alert_name.text,
              severity |-> xml_severity_of(risk_level),
              cwe |-> xml_int_or_none(cwe_id.text),
              references |-> reference.text,
              impact |-> risk_level,
              confidence |-> map_confidence_to_level(confidence.text),
              owasp_top_10 |-> xml_owasp_of(alert_name.text),
              plugin_id |-> IF isdigit(plugin_id.text)
                            THEN PyIntV(PyInt(plugin_id.text).n)
                            ELSE PyChars(plugin_id.text),
              has_instance |-> instances # <<>>]

\* sites = root.findall('.//zap:site'); per site, site.findall('.//zap:alertitem')
xml_site_alerts(sites) == AllSiteAlerts(sites)

\* ZAPXMLDefectDojoUploader.parse_zap_xml_report on a well-formed document
parse_zap_xml_report(sites) ==
    Somes([ i \in 1..Len(xml_site_alerts(sites)) |-> xml_extract_finding_from_alert(xml_site_alerts(sites)[i]) ])

(***************************************************************************)
(* 4.5 Upload orchestrator: the remote system and the HTTP exchanges.      *)
(* remote.products are the ids of the products that the name search        *)
(* returns, remote.engagements the engagements, both in result order.      *)
(***************************************************************************)
\* requests.get / requests.post raising (no response) instead of returning
NoResponse == -1

GetStatuses == {200, 500}

PostStatuses == {201, 200, 500}

GetOutcomes == GetStatuses \cup {NoResponse}

PostOutcomes == PostStatuses \cup {NoResponse}

\* datetime.now() of every invocation of the model, and an earlier day
Today == "d2"

Yesterday == "d1"

\* datetime.now().strftime('%Y-%m-%d')
strftime_date(day) == <<day>>

\* datetime.now().isoformat()
isoformat(day) == <<day, "T", "10:15:00">>

\* str.startswith
startswith(s, prefix) ==
    Len(prefix) <= Len(s) /\ SubSeq(s, 1, Len(prefix)) = prefix

Req(method, path, status) == [method |-> method, path |-> path, status |-> status]

\* the outcome of a function: what it returned (ret), whether an exception
\* left it (raised), the requests it sent and the remote state it left
Outcome(r, raised, calls, rem) ==
    [ret |-> r, raised |-> raised, calls |-> calls, remote |-> rem]

\* POST /api/v2/products/ answered 201: the remote system stores the product
RemoteAddProduct(rem) ==
    [rem EXCEPT !.products = Append(@, Len(@) + 1)]

create_product_accepts_200(catches, rem, g, p) ==
    LET get == <<Req("GET", "products", g)>>
        post == <<Req("POST", "products", p)>>
    IN  IF g = NoResponse THEN Outcome(PyNone, ~catches, get, rem)
        ELSE IF g = 200 /\ rem.products # <<>>
        THEN Outcome(PyIntV(rem.products[1]), FALSE, get, rem)
        ELSE IF p = NoResponse THEN Outcome(PyNone, ~catches, get \o post, rem)
        ELSE IF p \in {200, 201}
        THEN Outcome(PyIntV(Len(rem.products) + 1), FALSE, get \o post,
                     RemoteAddProduct(rem))
        ELSE Outcome(PyNone, FALSE, get \o post, rem)

create_product_always_post(catches, rem, g, p) ==
    LET get == <<Req("GET", "products", g)>>
        post == <<Req("POST", "products", p)>>
    IN  IF g = NoResponse THEN Outcome(PyNone, ~catches, get, rem)
        ELSE IF p = NoResponse THEN Outcome(PyNone, ~catches, get \o post, rem)
        ELSE IF p = 201
        THEN Outcome(PyIntV(Len(rem.products) + 1), FALSE, get \o post,
                     RemoteAddProduct(rem))
        ELSE Outcome(PyNone, FALSE, get \o post, rem)

\* create_product_if_not_exists of the three classes; catches: the body is
\* inside try/except Exception (dast) or not (enh, xml).  g and p are the
\* outcomes of the GET and of the POST, should it be sent.
create_product_if_not_exists(catches, rem, g, p) ==
    LET get == <<Req("GET", "products", g)>>
        post == <<Req("POST", "products", p)>>
    IN  IF g = NoResponse THEN Outcome(PyNone, ~catches, get, rem)
        ELSE IF g = 200 /\ rem.products # <<>>
        THEN Outcome(PyIntV(rem.products[1]), FALSE, get, rem)
        ELSE IF p = NoResponse THEN Outcome(PyNone, ~catches, get \o post, rem)
        ELSE IF p = 201
        THEN Outcome(PyIntV(Len(rem.products) + 1), FALSE, get \o post,
                     RemoteAddProduct(rem))
        ELSE Outcome(PyNone, FALSE, get \o post, rem)

\* GET /api/v2/engagements/?name=..&product=..: the matching engagements
EngagementResults(rem, name, product) ==
    LET Matches(e) == e.name = name /\ e.product = product
    IN  SelectSeq(rem.engagements, Matches)

\* POST /api/v2/engagements/ answered 201: the remote system stores it
RemoteAddEngagement(rem, name, product, target_start) ==
    [rem EXCEPT !.engagements =
        Append(@, [id |-> Len(@) + 1, name |-> name, product |-> product,
                   target_start |-> target_start])]

create_engagement_any_date(catches, rem, name, product, g, p) ==
    LET get == <<Req("GET", "engagements", g)>>
        post == <<Req("POST", "engagements", p)>>
        engagements == EngagementResults(rem, name, product)
    IN  IF g = NoResponse THEN Outcome(PyNone, ~catches, get, rem)
        ELSE IF g = 200 /\ engagements # <<>>
        THEN Outcome(PyIntV(engagements[1].id), FALSE, get, rem)
        ELSE IF p = NoResponse THEN Outcome(PyNone, ~catches, get \o post, rem)
        ELSE IF p = 201
        THEN Outcome(PyIntV(Len(rem.engagements) + 1), FALSE, get \o post,
                     RemoteAddEngagement(rem, name, product, isoformat(Today)))
        ELSE Outcome(PyNone, FALSE, get \o post, rem)

\* create_engagement_if_not_exists (enh, xml) and
\* create_dast_engagement_if_not_exists (dast)
create_engagement_if_not_exists(catches, rem, name, product, g, p) ==
    LET get == <<Req("GET", "engagements", g)>>
        post == <<Req("POST", "engagements", p)>>
        engagement_date == strftime_date(Today)
        engagements == EngagementResults(rem, name, product)
        OfToday(eng) == startswith(eng.target_start, engagement_date)
        todays == SelectSeq(engagements, OfToday)
    IN  IF g = NoResponse THEN Outcome(PyNone, ~catches, get, rem)
        ELSE IF g = 200 /\ todays # <<>>
        THEN Outcome(PyIntV(todays[1].id), FALSE, get, rem)
        ELSE IF p = NoResponse THEN Outcome(PyNone, ~catches, get \o post, rem)
        ELSE IF p = 201
        THEN Outcome(PyIntV(Len(rem.engagements) + 1), FALSE, get \o post,
                     RemoteAddEngagement(rem, name, product, isoformat(Today)))
        ELSE Outcome(PyNone, FALSE, get \o post, rem)

Catches(variant) == variant = "dast"

\* A report file of the command line: its name, what is on disk under that
\* name (nothing, a zero-byte file, bytes that do not parse, a ZAP report
\* with its sites, another scanner's report) .
File(name, kind, sites) == [name |-> name, kind |-> kind, sites |-> sites]

ZapGood == File("gl-dast-report.json", "report", <<[alerts |-> <<AlertSqli>>]>>)

ZapNoInst == File("gl-dast-report.json", "report", <<[alerts |-> <<AlertNoInst>>]>>)

ZapMalformed == File("gl-dast-report.json", "malformed", <<>>)

ZapMissing == File("gl-dast-report.json", "missing", <<>>)

Gitleaks == File("gitleaks.json", "opaque", <<>>)

GitleaksEmpty == File("gitleaks.json", "empty", <<>>)

GitleaksMissing == File("gitleaks.json", "missing", <<>>)

XmlGood ==
    File("gl-dast-report.xml", "report",
         <<[alerts |-> <<AlertSqli>>], [alerts |-> <<AlertXfo>>]>>)

XmlMissing == File("gl-dast-report.xml", "missing", <<>>)

XmlEmpty == File("gl-dast-report.xml", "empty", <<>>)

XmlMalformed == File("gl-dast-report.xml", "malformed", <<>>)

\* 'dast' in report_file.lower() or 'zap' in report_file.lower()
IsDastName(name) == name \in {"gl-dast-report.json", "gl-dast-report.xml"}

\* os.path.basename(report_file) == 'gl-dast-report.json'
IsGlDastReportJson(name) == name = "gl-dast-report.json"

\* os.path.exists(path)
exists(file) == file.kind # "missing"

\* open(path) and json.load / ET.parse succeed
Parses(file) == file.kind = "report"

Upload(status, engagement) ==
    [method |-> "POST", path |-> "import-scan", status |-> status,
     engagement |-> engagement]

\* DASTDefectDojoUploader.process_zap_dast_report: upload_data, or None when
\* open() or json.load() raises
dast_process_zap_dast_report(file, engagement) ==
    IF ~Parses(file) THEN PyNone
    ELSE [kind |-> "upload_data", engagement |-> engagement,
          findings |-> dast_process_findings(file.sites)]

\* DASTDefectDojoUploader.upload_findings; u is the outcome of the POST (an
\* exception of requests.post is caught: None).  The
\* 201 body reports the findings of the payload as findings_count.
upload_findings(upload_data, engagement, u) ==
    LET calls == <<Upload(u, engagement)>> IN
    IF u = 201
    THEN Outcome([kind |-> "dict", findings_count |-> Len(upload_data.findings)],
                 FALSE, calls, <<>>)
    ELSE Outcome(PyNone, FALSE, calls, <<>>)

upload_zap_findings_default_engagement(found, engagement, u) ==
    Outcome(u = 201, FALSE, <<Upload(u, 1)>>, <<>>)

\* DefectDojoUploader.upload_zap_findings
upload_zap_findings(found, engagement, u) ==
    Outcome(u = 201, FALSE, <<Upload(u, engagement)>>, <<>>)

\* DefectDojoUploader.process_zap_dast_report: every exception (open,
\* json.load, int) ends in return False
enh_process_zap_dast_report(file, engagement, u) ==
    LET extracted == enh_extract_findings(file.sites) IN
    IF ~Parses(file) \/ extracted.raised THEN Outcome(FALSE, FALSE, <<>>, <<>>)
    ELSE IF extracted.findings # <<>>
    THEN upload_zap_findings(extracted.findings, engagement, u)
    ELSE Outcome(TRUE, FALSE, <<>>, <<>>)

upload_report_posts_empty(file, engagement, u) ==
    IF ~exists(file) THEN Outcome(FALSE, FALSE, <<>>, <<>>)
    ELSE Outcome(u = 201, FALSE, <<Upload(u, engagement)>>, <<>>)

upload_report_twice(file, engagement, u) ==
    IF ~exists(file) \/ file.kind = "empty" THEN Outcome(FALSE, FALSE, <<>>, <<>>)
    ELSE Outcome(u = 201, FALSE, <<Upload(u, engagement), Upload(u, engagement)>>, <<>>)

upload_report_accepts_2xx(file, engagement, u) ==
    IF ~exists(file) \/ file.kind = "empty" THEN Outcome(FALSE, FALSE, <<>>, <<>>)
    ELSE Outcome(u \in 200..299, FALSE, <<Upload(u, engagement)>>, <<>>)

\* DefectDojoUploader.upload_report
upload_report(file, engagement, u) ==
    IF ~exists(file) \/ file.kind = "empty" THEN Outcome(FALSE, FALSE, <<>>, <<>>)
    ELSE Outcome(u = 201, FALSE, <<Upload(u, engagement)>>, <<>>)

\* ZAPXMLDefectDojoUploader.upload_zap_xml_findings
upload_zap_xml_findings(found, engagement, u) ==
    Outcome(u = 201, FALSE, <<Upload(u, engagement)>>, <<>>)

process_zap_xml_upload_ensure_first(file, rem, name, pg, pp, eg, ep, u) ==
    LET found == IF Parses(file) THEN parse_zap_xml_report(file.sites) ELSE <<>>
        product == create_product_if_not_exists(FALSE, rem, pg, pp)
    IN  IF ~exists(file) THEN Outcome(FALSE, FALSE, <<>>, rem)
        ELSE IF file.kind = "empty" THEN Outcome(FALSE, FALSE, <<>>, rem)
        ELSE IF product.raised \/ product.ret = PyNone
        THEN Outcome(FALSE, FALSE, product.calls, product.remote)
        ELSE Outcome(found = <<>>, FALSE, product.calls, product.remote)

\* ZAPXMLDefectDojoUploader.process_zap_xml_upload: the whole workflow; every
\* exception ends in return False.  pg, pp, eg, ep, u are the outcomes of
\* the requests, should they be sent.
process_zap_xml_upload(file, rem, name, pg, pp, eg, ep, u) ==
    LET found == IF Parses(file) THEN parse_zap_xml_report(file.sites) ELSE <<>>
        product == create_product_if_not_exists(FALSE, rem, pg, pp)
        engagement ==
            create_engagement_if_not_exists(FALSE, product.remote, name,
                                            product.ret.n, eg, ep)
        upload == upload_zap_xml_findings(found, engagement.ret.n, u)
    IN  IF ~exists(file) THEN Outcome(FALSE, FALSE, <<>>, rem)  \* getsize raises
        ELSE IF file.kind = "empty" THEN Outcome(FALSE, FALSE, <<>>, rem)
        ELSE IF found = <<>> THEN Outcome(TRUE, FALSE, <<>>, rem)
        ELSE IF product.raised \/ product.ret = PyNone
        THEN Outcome(FALSE, FALSE, product.calls, product.remote)
        ELSE IF engagement.raised \/ engagement.ret = PyNone
        THEN Outcome(FALSE, FALSE, product.calls \o engagement.calls,
                     engagement.remote)
        ELSE Outcome(upload.ret, FALSE,
                     product.calls \o engagement.calls \o upload.calls,
                     engagement.remote)

(***************************************************************************)
(* SpecFn: each function is applied once to an argument drawn in Init.     *)
(***************************************************************************)
Variants == {"dast", "enh", "xml"}

RiskLabels == DictKeys(enh_risk_mapping) \cup {"", "Bogus", "high", "Info"}

References ==
    DictKeys(dast_owasp_mapping) \cup {"", "https://owasp.org/x", "WASC-21", "Other"}

AlertNames ==
    DictKeys(enh_owasp_mapping) \cup DictKeys(xml_owasp_mapping)
        \cup {"", "Custom Alert"}

\* what the product search of the remote system returns, in result order
ProductRemotes ==
    { [products |-> ps, engagements |-> <<>>] : ps \in {<<>>, <<1>>, <<2, 1>>} }

\* an engagement stored by the remote system
Engagement(id, name, product, day) ==
    [id |-> id, name |-> name, product |-> product, target_start |-> isoformat(day)]

HarnessName == <<"CI/CD Pipeline - ", "main">>

OtherName == <<"CI/CD Pipeline - ", "dev">>

\* what the remote system may hold when the engagement is looked up for
\* HarnessName and product 1
EngagementRemotes ==
    { [products |-> <<1, 2>>, engagements |-> es] :
        es \in { <<>>,
                 <<Engagement(1, HarnessName, 1, Yesterday)>>,
                 <<Engagement(1, HarnessName, 1, Today)>>,
                 <<Engagement(1, HarnessName, 1, Yesterday),
                   Engagement(2, HarnessName, 1, Today)>>,
                 <<Engagement(1, HarnessName, 1, Today),
                   Engagement(2, HarnessName, 1, Today)>>,
                 <<Engagement(1, OtherName, 1, Today)>>,
                 <<Engagement(1, HarnessName, 2, Today)>> } }

\* what the import-scan POST may be answered, 204 as another 2xx status
UploadOutcomes == PostOutcomes \cup {204}

\* a list of findings handed to an upload function
SomeFindings == <<[kind |-> "finding", title |-> "SQL Injection"]>>

\* process_zap_xml_upload: if upload_success: self._generate_upload_summary(..),
\* which writes the summary file
generate_upload_summary_called(o) ==
    /\ o.ret
    /\ \E i \in 1..Len(o.calls) : o.calls[i].path = "import-scan"

\* an XML report without any site
XmlNoSites == File("gl-dast-report.xml", "report", <<>>)

XmlFiles == {XmlGood, XmlNoSites, XmlMalformed, XmlMissing, XmlEmpty}

\* the text of <riskcode> / <confidence>, <<>> when the element is absent
CodeTexts ==
    { <<>>, <<"0">>, <<"1">>, <<"2">>, <<"3">>, <<"4">>, <<"5">>, <<"1", "0">>,
      <<"-", "1">>, <<"x">> }

Pending == [kind |-> "pending"]

NoCall == [fn |-> "none"]

InitFn ==
    /\ script = "none"
    /\ pc = "idle"
    /\ files = <<>>
    /\ idx = 0
    /\ product_id = PyNone
    /\ engagement_id = PyNone
    /\ engagement_name = <<>>
    /\ counters = [successful_uploads |-> 0, failed_uploads |-> 0,
                   total_findings_uploaded |-> 0]
    /\ http = <<>>
    /\ exit_code = -1
    /\ traceback = FALSE
    /\ remote = [products |-> <<>>, engagements |-> <<>>]
    /\ dast_scan_type_id = 1
    /\ runs = 0
    /\ ret = Pending
    /\ \/ \E v \in Variants, l \in RiskLabels :
             call = [fn |-> "severity", variant |-> v, label |-> l]
       \/ \E r \in References : call = [fn |-> "owasp", variant |-> "dast", text |-> r]
       \/ \E n \in AlertNames, v \in {"enh", "xml"} :
             call = [fn |-> "owasp", variant |-> v, text |-> n]
       \/ \E v \in Variants, r \in ReportsOf(AlertPool) :
             call = [fn |-> "parse", variant |-> v, sites |-> r]
       \/ \E c \in CodeTexts, f \in {"risk_code", "confidence"} :
             call = [fn |-> f, variant |-> "xml", code |-> c]
       \/ \E a \in AlertPool : call = [fn |-> "confidence", variant |-> "dast", alert |-> a]
       \/ \E a \in AlertPool : call = [fn |-> "tags", variant |-> "dast", alert |-> a]
       \/ \E a \in AlertPool, i \in {Inst1, Inst2} :
             call = [fn |-> "description", variant |-> "dast", alert |-> a, instance |-> i]
       \/ \E v \in Variants, r \in ProductRemotes, g \in GetOutcomes, p \in PostOutcomes :
             call = [fn |-> "create_product", variant |-> v, rem |-> r, g |-> g, p |-> p]
       \/ \E f \in XmlFiles, r \in ProductRemotes, g \in GetOutcomes, u \in PostOutcomes :
             call = [fn |-> "workflow", variant |-> "xml", file |-> f, rem |-> r,
                     name |-> HarnessName, pg |-> g, pp |-> 201, eg |-> 200,
                     ep |-> 201, u |-> u]
       \/ \E u \in UploadOutcomes :
             call = [fn |-> "upload", variant |-> "dast", file |-> ZapGood, u |-> u]
       \/ \E f \in {Gitleaks, GitleaksEmpty, ZapMissing}, u \in UploadOutcomes :
             call = [fn |-> "upload", variant |-> "enh", file |-> f, u |-> u]
       \/ \E v \in {"enh_zap", "xml"}, u \in UploadOutcomes :
             call = [fn |-> "upload", variant |-> v, findings |-> SomeFindings, u |-> u]
       \/ \E v \in Variants, r \in EngagementRemotes, g \in GetOutcomes, p \in PostOutcomes :
             call = [fn |-> "create_engagement", variant |-> v, rem |-> r,
                     name |-> HarnessName, product |-> 1, g |-> g, p |-> p]

Applies(fn, variant) == call.fn = fn /\ call.variant = variant /\ ret = Pending

CallDastSeverity ==
    /\ Applies("severity", "dast")
    /\ ret' = PyStr(dast_map_zap_risk_to_severity(call.label))
    /\ UNCHANGED <<call, runVars>>

CallEnhSeverity ==
    /\ Applies("severity", "enh")
    /\ ret' = PyStr(enh_map_zap_risk_to_severity(call.label))
    /\ UNCHANGED <<call, runVars>>

CallXmlSeverity ==
    /\ Applies("severity", "xml")
    /\ ret' = PyStr(xml_severity_of(call.label))
    /\ UNCHANGED <<call, runVars>>

CallDastOwasp ==
    /\ Applies("owasp", "dast")
    /\ ret' = PyStr(extract_owasp_category(call.text))
    /\ UNCHANGED <<call, runVars>>

CallEnhOwasp ==
    /\ Applies("owasp", "enh")
    /\ ret' = get_owasp_mapping(call.text)
    /\ UNCHANGED <<call, runVars>>

CallXmlOwasp ==
    /\ Applies("owasp", "xml")
    /\ ret' = xml_owasp_of(call.text)
    /\ UNCHANGED <<call, runVars>>

CallDastProcess ==
    /\ Applies("parse", "dast")
    /\ ret' = [kind |-> "parsed", raised |-> FALSE,
               findings |-> dast_process_findings(call.sites)]
    /\ UNCHANGED <<call, runVars>>

CallEnhProcess ==
    /\ Applies("parse", "enh")
    /\ ret' = [kind |-> "parsed", raised |-> enh_extract_findings(call.sites).raised,
               findings |-> enh_extract_findings(call.sites).findings]
    /\ UNCHANGED <<call, runVars>>

CallXmlParse ==
    /\ Applies("parse", "xml")
    /\ ret' = [kind |-> "parsed", raised |-> FALSE,
               findings |-> parse_zap_xml_report(call.sites)]
    /\ UNCHANGED <<call, runVars>>

CallDastCreateProduct ==
    /\ Applies("create_product", "dast")
    /\ ret' = [kind |-> "outcome",
               out |-> create_product_if_not_exists(TRUE, call.rem, call.g, call.p)]
    /\ UNCHANGED <<call, runVars>>

CallEnhCreateProduct ==
    /\ Applies("create_product", "enh")
    /\ ret' = [kind |-> "outcome",
               out |-> create_product_if_not_exists(FALSE, call.rem, call.g, call.p)]
    /\ UNCHANGED <<call, runVars>>

CallXmlCreateProduct ==
    /\ Applies("create_product", "xml")
    /\ ret' = [kind |-> "outcome",
               out |-> create_product_if_not_exists(FALSE, call.rem, call.g, call.p)]
    /\ UNCHANGED <<call, runVars>>

CallDastCreateEngagement ==
    /\ Applies("create_engagement", "dast")
    /\ ret' = [kind |-> "outcome",
               out |-> create_engagement_if_not_exists(TRUE, call.rem, call.name,
                                                       call.product, call.g, call.p)]
    /\ UNCHANGED <<call, runVars>>

CallEnhCreateEngagement ==
    /\ Applies("create_engagement", "enh")
    /\ ret' = [kind |-> "outcome",
               out |-> create_engagement_if_not_exists(FALSE, call.rem, call.name,
                                                       call.product, call.g, call.p)]
    /\ UNCHANGED <<call, runVars>>

CallXmlCreateEngagement ==
    /\ Applies("create_engagement", "xml")
    /\ ret' = [kind |-> "outcome",
               out |-> create_engagement_if_not_exists(FALSE, call.rem, call.name,
                                                       call.product, call.g, call.p)]
    /\ UNCHANGED <<call, runVars>>

CallXmlWorkflow ==
    /\ Applies("workflow", "xml")
    /\ LET o == process_zap_xml_upload(call.file, call.rem, call.name, call.pg,
                                       call.pp, call.eg, call.ep, call.u)
       IN  ret' = [kind |-> "workflow", out |-> o,
                   summary |-> generate_upload_summary_called(o)]
    /\ UNCHANGED <<call, runVars>>

\* upload_findings on the upload_data of a parsed report, engagement 1
CallDastUpload ==
    /\ Applies("upload", "dast")
    /\ ret' = [kind |-> "outcome",
               out |-> upload_findings(dast_process_zap_dast_report(call.file, 1),
                                       1, call.u)]
    /\ UNCHANGED <<call, runVars>>

CallEnhUpload ==
    /\ Applies("upload", "enh")
    /\ ret' = [kind |-> "outcome", out |-> upload_report(call.file, 1, call.u)]
    /\ UNCHANGED <<call, runVars>>

CallEnhUploadZap ==
    /\ Applies("upload", "enh_zap")
    /\ ret' = [kind |-> "outcome",
               out |-> upload_zap_findings(call.findings, 1, call.u)]
    /\ UNCHANGED <<call, runVars>>

CallXmlUpload ==
    /\ Applies("upload", "xml")
    /\ ret' = [kind |-> "outcome",
               out |-> upload_zap_xml_findings(call.findings, 1, call.u)]
    /\ UNCHANGED <<call, runVars>>

\* risk_level = self._map_risk_code_to_level(risk_code)
\* severity = self.severity_mapping.get(risk_level, 'Low')
CallXmlRiskCode ==
    /\ Applies("risk_code", "xml")
    /\ ret' = [kind |-> "level",
               level |-> map_risk_code_to_level(call.code),
               severity |-> xml_severity_of(map_risk_code_to_level(call.code))]
    /\ UNCHANGED <<call, runVars>>

CallXmlConfidence ==
    /\ Applies("confidence", "xml")
    /\ ret' = PyStr(map_confidence_to_level(call.code))
    /\ UNCHANGED <<call, runVars>>

CallDastConfidence ==
    /\ Applies("confidence", "dast")
    /\ ret' = PyStr(determine_confidence(call.alert))
    /\ UNCHANGED <<call, runVars>>

\* the tags of a finding, as _create_finding_from_alert asks for them
CallDastTags ==
    /\ Applies("tags", "dast")
    /\ ret' = [kind |-> "tags",
               tags |-> generate_finding_tags(call.alert,
                          extract_owasp_category(Get(call.alert, "reference", "")))]
    /\ UNCHANGED <<call, runVars>>

CallDastDescription ==
    /\ Applies("description", "dast")
    /\ ret' = [kind |-> "description",
               description |-> build_enhanced_description(call.alert, call.instance)]
    /\ UNCHANGED <<call, runVars>>

NextFn ==
    \/ CallDastSeverity
    \/ CallEnhSeverity
    \/ CallXmlSeverity
    \/ CallDastOwasp
    \/ CallEnhOwasp
    \/ CallXmlOwasp
    \/ CallDastProcess
    \/ CallEnhProcess
    \/ CallXmlParse
    \/ CallDastCreateProduct
    \/ CallEnhCreateProduct
    \/ CallXmlCreateProduct
    \/ CallDastCreateEngagement
    \/ CallEnhCreateEngagement
    \/ CallXmlCreateEngagement
    \/ CallXmlWorkflow
    \/ CallDastUpload
    \/ CallEnhUpload
    \/ CallEnhUploadZap
    \/ CallXmlUpload
    \/ CallXmlRiskCode
    \/ CallXmlConfidence
    \/ CallDastConfidence
    \/ CallDastTags
    \/ CallDastDescription

SpecFn == InitFn /\ [][NextFn]_vars

(***************************************************************************)
(* Spec: whole invocations of the scripts.  SpecDay: several invocations   *)
(* in a row, on one day, against one remote system.                        *)
(***************************************************************************)
Scripts == {"dast", "enh", "xml"}

\* the time of day at which an invocation constructs its uploader
Clocks == {"10:15:00", "10:16:00"}

\* self.engagement_name: f"DAST Scan {now:%Y-%m-%d %H:%M:%S}" (dast),
\* f"CI/CD Pipeline - {CI_COMMIT_REF_NAME or 'main'}" (enh, xml)
EngagementNameOf(s, t) ==
    IF s = "dast" THEN <<"DAST Scan ", Today, " ", t>>
    ELSE <<"CI/CD Pipeline - ", "main">>

EngagementNames == { EngagementNameOf(s, t) : s \in Scripts, t \in Clocks }

ZeroCounters ==
    [successful_uploads |-> 0, failed_uploads |-> 0, total_findings_uploaded |-> 0]

Lists(pool, lo, hi) == UNION { [1..n -> pool] : n \in lo..hi }

DastFileLists == Lists({ZapGood, ZapNoInst, ZapMalformed, ZapMissing, Gitleaks}, 0, MaxFiles)

\* with no file argument the script takes its default list; the model gives
\* it at least one
EnhFileLists ==
    Lists({ZapGood, ZapNoInst, ZapMalformed, Gitleaks, GitleaksEmpty, GitleaksMissing},
          1, MaxFiles)

XmlFileLists == Lists({XmlGood, XmlMissing, XmlEmpty, XmlMalformed}, 1, 1)

DayFileLists(s) == IF s = "xml" THEN {<<XmlGood>>} ELSE {<<ZapGood>>}

OldEngagement(name, day) ==
    [id |-> 1, name |-> name, product |-> 1, target_start |-> isoformat(day)]

\* what the remote system holds before the first invocation
RemoteInits ==
    { [products |-> <<>>, engagements |-> <<>>],
      [products |-> <<1, 2>>, engagements |-> <<>>] }
    \cup { [products |-> <<1, 2>>, engagements |-> <<OldEngagement(n, Yesterday)>>] :
           n \in EngagementNames }
    \cup { [products |-> <<1, 2>>,
            engagements |-> <<OldEngagement(n, Yesterday),
                              [OldEngagement(n, Today) EXCEPT !.id = 2]>>] :
           n \in EngagementNames }

Init ==
    /\ call = NoCall
    /\ ret = Pending
    /\ script = "none"
    /\ pc = "idle"
    /\ files = <<>>
    /\ idx = 0
    /\ product_id = PyNone
    /\ engagement_id = PyNone
    /\ engagement_name = <<>>
    /\ counters = ZeroCounters
    /\ http = <<>>
    /\ exit_code = -1
    /\ traceback = FALSE
    /\ remote \in RemoteInits
    /\ dast_scan_type_id = 1
    /\ runs = 0

\* a new process: nothing of the previous invocation is left but the remote
Begin(s, t, fs, first) ==
    /\ script' = s
    /\ files' = fs
    /\ idx' = 0
    /\ product_id' = PyNone
    /\ engagement_id' = PyNone
    /\ engagement_name' = EngagementNameOf(s, t)
    /\ counters' = ZeroCounters
    /\ http' = first
    /\ traceback' = FALSE
    /\ runs' = runs + 1
    /\ UNCHANGED <<call, ret, remote>>

CanStart(limit) == pc \in {"idle", "exited"} /\ runs < limit

\* sys.exit(code), or the interpreter ending on an uncaught exception
Exit(code) == pc' = "exited" /\ exit_code' = code

Goto(label) == pc' = label /\ exit_code' = exit_code

\* len(sys.argv) < 4 (dast, enh), != 5 (xml): usage, sys.exit(1)
UsageError(limit) ==
    /\ CanStart(limit)
    /\ \E s \in Scripts, t \in Clocks : Begin(s, t, <<>>, <<>>)
    /\ Exit(1)
    /\ UNCHANGED dast_scan_type_id

\* dast main() up to the construction of the uploader, whose __init__ calls
\* _get_dast_scan_type_id: GET test_types, the id of 'dast scan' or 1
DastMain(limit, lists) ==
    /\ CanStart(limit)
    /\ \E fs \in lists, t \in Clocks, g \in GetOutcomes, has_type \in BOOLEAN :
          /\ Begin("dast", t, fs, <<Req("GET", "test_types", g)>>)
          /\ dast_scan_type_id' = IF g = 200 /\ has_type THEN 2 ELSE 1
    /\ Goto("product")

\* main(): product_id = uploader.create_product_if_not_exists()
DastEnsureProduct ==
    /\ script = "dast" /\ pc = "product"
    /\ \E g \in GetOutcomes, p \in PostOutcomes :
          LET o == create_product_if_not_exists(TRUE, remote, g, p) IN
          /\ product_id' = o.ret
          /\ http' = http \o o.calls
          /\ remote' = o.remote
          /\ IF o.ret = PyNone THEN Exit(1) ELSE Goto("engagement")
    /\ UNCHANGED <<call, ret, script, files, idx, engagement_id, engagement_name,
                   counters, traceback, dast_scan_type_id, runs>>

\* main(): engagement_id = uploader.create_dast_engagement_if_not_exists(product_id)
DastEnsureEngagement ==
    /\ script = "dast" /\ pc = "engagement"
    /\ \E g \in GetOutcomes, p \in PostOutcomes :
          LET o == create_engagement_if_not_exists(TRUE, remote, engagement_name,
                                                   product_id.n, g, p) IN
          /\ engagement_id' = o.ret
          /\ http' = http \o o.calls
          /\ remote' = o.remote
          /\ IF o.ret = PyNone THEN Exit(1) ELSE Goto("files")
    /\ UNCHANGED <<call, ret, script, files, idx, product_id, engagement_name,
                   counters, traceback, dast_scan_type_id, runs>>

DastProcessFile_abort_on_missing ==
    /\ script = "dast" /\ pc = "files" /\ idx < Len(files)
    /\ IF exists(files[idx + 1])
       THEN idx' = idx + 1 /\ Goto("files")
       ELSE idx' = idx /\ Exit(1)
    /\ UNCHANGED <<call, ret, script, files, product_id, engagement_id, http,
                   counters, engagement_name, traceback, remote,
                   dast_scan_type_id, runs>>

\* main(): one iteration of "for report_file in report_files"
DastProcessFile ==
    /\ script = "dast" /\ pc = "files" /\ idx < Len(files)
    /\ LET file == files[idx + 1]
           upload_data == dast_process_zap_dast_report(file, engagement_id.n)
           uploads == exists(file) /\ IsDastName(file.name) /\ upload_data # PyNone
       IN  \E u \in PostOutcomes :
              LET result == upload_findings(upload_data, engagement_id.n, u) IN
              /\ http' = IF uploads THEN http \o result.calls ELSE http
              /\ counters' =
                    IF uploads /\ result.ret # PyNone
                    THEN [counters EXCEPT !.total_findings_uploaded =
                                             @ + result.ret.findings_count]
                    ELSE counters
    /\ idx' = idx + 1
    /\ Goto("files")
    /\ UNCHANGED <<call, ret, script, files, product_id, engagement_id,
                   engagement_name, traceback, remote, dast_scan_type_id, runs>>

\* main(): after the loop, sys.exit(0) on either branch
DastFinish ==
    /\ script = "dast" /\ pc = "files" /\ idx = Len(files)
    /\ IF counters.total_findings_uploaded > 0 THEN Exit(0) ELSE Exit(0)
    /\ UNCHANGED <<call, ret, script, files, idx, product_id, engagement_id,
                   engagement_name, counters, http, traceback, remote,
                   dast_scan_type_id, runs>>

\* enh main() up to uploader.upload_all_reports(report_files)
EnhMain(limit, lists) ==
    /\ CanStart(limit)
    /\ \E fs \in lists, t \in Clocks : Begin("enh", t, fs, <<>>)
    /\ Goto("product")
    /\ UNCHANGED dast_scan_type_id

\* upload_all_reports: product_id = self.create_product_if_not_exists(); an
\* exception of requests leaves the script uncaught (exit status 1)
EnhEnsureProduct ==
    /\ script = "enh" /\ pc = "product"
    /\ \E g \in GetOutcomes, p \in PostOutcomes :
          LET o == create_product_if_not_exists(FALSE, remote, g, p) IN
          /\ product_id' = o.ret
          /\ http' = http \o o.calls
          /\ remote' = o.remote
          /\ traceback' = o.raised
          /\ IF o.ret = PyNone THEN Exit(1) ELSE Goto("engagement")
    /\ UNCHANGED <<call, ret, script, files, idx, engagement_id, engagement_name,
                   counters, dast_scan_type_id, runs>>

\* upload_all_reports: engagement_id = self.create_engagement_if_not_exists(product_id)
EnhEnsureEngagement ==
    /\ script = "enh" /\ pc = "engagement"
    /\ \E g \in GetOutcomes, p \in PostOutcomes :
          LET o == create_engagement_if_not_exists(FALSE, remote, engagement_name,
                                                   product_id.n, g, p) IN
          /\ engagement_id' = o.ret
          /\ http' = http \o o.calls
          /\ remote' = o.remote
          /\ traceback' = o.raised
          /\ IF o.ret = PyNone THEN Exit(1) ELSE Goto("files")
    /\ UNCHANGED <<call, ret, script, files, idx, product_id, engagement_name,
                   counters, dast_scan_type_id, runs>>

\* upload_all_reports: one iteration of "for report_file in report_files"
EnhProcessFile ==
    /\ script = "enh" /\ pc = "files" /\ idx < Len(files)
    /\ \E u \in PostOutcomes :
          LET file == files[idx + 1]
              o == IF IsGlDastReportJson(file.name)
                   THEN enh_process_zap_dast_report(file, engagement_id.n, u)
                   ELSE upload_report(file, engagement_id.n, u)
          IN  /\ http' = http \o o.calls
              /\ counters' =
                    IF o.ret
                    THEN [counters EXCEPT !.successful_uploads = @ + 1]
                    ELSE [counters EXCEPT !.failed_uploads = @ + 1]
    /\ idx' = idx + 1
    /\ Goto("files")
    /\ UNCHANGED <<call, ret, script, files, product_id, engagement_id,
                   engagement_name, traceback, remote, dast_scan_type_id, runs>>

EnhFinish_no_failed_upload ==
    /\ script = "enh" /\ pc = "files" /\ idx = Len(files)
    /\ IF counters.failed_uploads = 0 THEN Exit(0) ELSE Exit(1)
    /\ UNCHANGED <<call, ret, script, files, idx, product_id, engagement_id,
                   engagement_name, counters, http, traceback, remote,
                   dast_scan_type_id, runs>>

\* upload_all_reports: return successful_uploads > 0; main(): sys.exit(0 or 1)
EnhFinish ==
    /\ script = "enh" /\ pc = "files" /\ idx = Len(files)
    /\ IF counters.successful_uploads > 0 THEN Exit(0) ELSE Exit(1)
    /\ UNCHANGED <<call, ret, script, files, idx, product_id, engagement_id,
                   engagement_name, counters, http, traceback, remote,
                   dast_scan_type_id, runs>>

\* xml main() up to uploader.process_zap_xml_upload(xml_file_path)
XmlMain(limit, lists) ==
    /\ CanStart(limit)
    /\ \E fs \in lists, t \in Clocks : Begin("xml", t, fs, <<>>)
    /\ Goto("workflow")
    /\ UNCHANGED dast_scan_type_id

\* main(): success = uploader.process_zap_xml_upload(xml_file_path); sys.exit
XmlProcessUpload ==
    /\ script = "xml" /\ pc = "workflow"
    /\ \E pg \in GetOutcomes, pp \in PostOutcomes, eg \in GetOutcomes,
          ep \in PostOutcomes, u \in PostOutcomes :
          LET o == process_zap_xml_upload(files[1], remote, engagement_name,
                                          pg, pp, eg, ep, u) IN
          /\ http' = http \o o.calls
          /\ remote' = o.remote
          /\ IF o.ret THEN Exit(0) ELSE Exit(1)
    /\ idx' = 1
    /\ UNCHANGED <<call, ret, script, files, product_id, engagement_id,
                   engagement_name, counters, traceback, dast_scan_type_id, runs>>

PlainFiles == {Gitleaks, GitleaksEmpty, GitleaksMissing}

\* upload-reports.py, the whole script: sys.argv[1..4] (IndexError when one
\* is missing), open(file_name, 'rb') (FileNotFoundError), requests.post;
\* none of them is caught, and the script ends after printing the outcome
PlainUpload(limit) ==
    /\ CanStart(limit)
    /\ \E argv_ok \in BOOLEAN, file \in PlainFiles, u \in PostOutcomes :
          LET sends == argv_ok /\ exists(file)
              raises == ~sends \/ u = NoResponse
          IN  /\ files' = IF argv_ok THEN <<file>> ELSE <<>>
              /\ idx' = IF sends THEN 1 ELSE 0
              /\ engagement_id' = IF argv_ok THEN PyIntV(1) ELSE PyNone
              /\ http' = IF sends THEN <<Upload(u, 1)>> ELSE <<>>
              /\ traceback' = raises
              /\ IF raises THEN Exit(1) ELSE Exit(0)
    /\ script' = "plain"
    /\ product_id' = PyNone
    /\ engagement_name' = <<>>
    /\ counters' = ZeroCounters
    /\ runs' = runs + 1
    /\ UNCHANGED <<call, ret, remote, dast_scan_type_id>>

Steps ==
    \/ DastEnsureProduct
    \/ DastEnsureEngagement
    \/ DastProcessFile
    \/ DastFinish
    \/ EnhEnsureProduct
    \/ EnhEnsureEngagement
    \/ EnhProcessFile
    \/ EnhFinish
    \/ XmlProcessUpload

Next ==
    \/ UsageError(1)
    \/ DastMain(1, DastFileLists)
    \/ EnhMain(1, EnhFileLists)
    \/ XmlMain(1, XmlFileLists)
    \/ PlainUpload(1)
    \/ Steps

Spec == Init /\ [][Next]_vars

\* the remote system holds the product and no engagement
InitLive == Init /\ remote = [products |-> <<1, 2>>, engagements |-> <<>>]

\* file lists holding one file of each kind the loops tell apart: a report,
\* a file that does not parse, a missing or empty one, another scanner's
DastLiveFileLists == Lists({ZapGood, ZapMalformed, ZapMissing, Gitleaks}, 0, MaxFiles)

EnhLiveFileLists == Lists({ZapGood, ZapMalformed, Gitleaks, GitleaksEmpty}, 1, MaxFiles)

NextLive ==
    \/ UsageError(1)
    \/ DastMain(1, DastLiveFileLists)
    \/ EnhMain(1, EnhLiveFileLists)
    \/ XmlMain(1, XmlFileLists)
    \/ PlainUpload(1)
    \/ Steps

\* a started process runs on until it exits
SpecLive == InitLive /\ [][NextLive]_vars /\ WF_vars(Steps)

NextDay ==
    \/ DastMain(MaxRuns, DayFileLists("dast"))
    \/ EnhMain(MaxRuns, DayFileLists("enh"))
    \/ XmlMain(MaxRuns, DayFileLists("xml"))
    \/ Steps

SpecDay == Init /\ [][NextDay]_vars

(***************************************************************************)
(* Properties of the pure parts (checked under SpecFn).                    *)
(***************************************************************************)
Parsed(variant) == call.fn = "parse" /\ call.variant = variant /\ ret.kind = "parsed"

HasInstances(alert) == Get(alert, "instances", <<>>) # <<>>

HasNameAndPlugin(alert) == Truthy(alert, "name", "") /\ Truthy(alert, "pluginid", <<>>)

NonNumericCwe(alert) == Truthy(alert, "cweid", <<>>) /\ ~PyInt(alert.cweid).ok

JsonTitle(alert) == Get(alert, "name", "Unknown ZAP Finding")

SiteZero(sites) == IF Len(sites) > 0 THEN sites[1].alerts ELSE <<>>

TitlesOf(findings) == [ i \in 1..Len(findings) |-> findings[i].title ]

\* C1: the XML parser, on a report of two sites with one alertitem each, both
\* carrying a name and a plugin id, yields exactly two findings.
C1_XmlTwoSitesTwoFindings ==
    ( /\ Parsed("xml")
      /\ Len(call.sites) = 2
      /\ \A i \in 1..2 : /\ Len(call.sites[i].alerts) = 1
                         /\ HasNameAndPlugin(call.sites[i].alerts[1]) )
    => Len(ret.findings) = 2

\* C2: an alert whose cweid is a non-numeric string and that is otherwise usable
\* still yields a Finding, with cwe 0 or absent, and no error is raised; in the
\* DAST JSON extractor, the plain JSON uploader and the XML extractor alike.
C2_NonNumericCweKeepsFinding ==
    /\ \A v \in {"dast", "enh"} :
         Parsed(v) =>
            \A i \in 1..Len(SiteZero(call.sites)) :
               LET alert == SiteZero(call.sites)[i] IN
               (HasInstances(alert) /\ NonNumericCwe(alert)) =>
                  /\ ~ret.raised
                  /\ \E j \in 1..Len(ret.findings) :
                        /\ ret.findings[j].title = JsonTitle(alert)
                        /\ ret.findings[j].cwe \in {PyIntV(0), PyNone}
    /\ Parsed("xml") =>
          \A i \in 1..Len(AllSiteAlerts(call.sites)) :
             LET alert == AllSiteAlerts(call.sites)[i] IN
             (HasNameAndPlugin(alert) /\ NonNumericCwe(alert)) =>
                \E j \in 1..Len(ret.findings) :
                   /\ ret.findings[j].title = alert.name
                   /\ ret.findings[j].cwe \in {PyIntV(0), PyNone}

\* C6: every severity mapper returns a value of {Critical, High, Medium, Low,
\* Info} for every raw risk label, known or not; so every Finding's severity
\* is of that enum.
C6_SeverityInEnum ==
    /\ (call.fn = "severity" /\ ret # Pending) => ret.s \in SeverityEnum
    /\ (call.fn = "parse" /\ ret # Pending) =>
          \A j \in 1..Len(ret.findings) : ret.findings[j].severity \in SeverityEnum

C6_Witness ==
    /\ call.fn = "severity"
    /\ call.label \notin DictKeys(enh_risk_mapping)
    /\ call.label # ""
    /\ call.variant = "dast"
    /\ ret = PyStr("Info")

\* C7: in the JSON path the batch holds exactly one Finding per first-site
\* alert that has at least one instance, in order: a zero-instance alert
\* yields none and changes nothing else.
C7_OneFindingPerAlertWithInstances ==
    \A v \in {"dast", "enh"} :
       Parsed(v) =>
          /\ ~ret.raised
          /\ TitlesOf(ret.findings)
               = TitlesOf([ i \in 1..Len(SelectSeq(SiteZero(call.sites), HasInstances)) |->
                            [title |-> JsonTitle(SelectSeq(SiteZero(call.sites),
                                                           HasInstances)[i])] ])

\* C8: in both JSON variants a report of several sites is extracted over the
\* alerts of site 0 only: every Finding derives from an alert of site 0.
C8_JsonFirstSiteOnly ==
    \A v \in {"dast", "enh"} :
       Parsed(v) =>
          /\ Len(ret.findings) <= Len(SiteZero(call.sites))
          /\ \A j \in 1..Len(ret.findings) :
                \E i \in 1..Len(SiteZero(call.sites)) :
                   /\ HasInstances(SiteZero(call.sites)[i])
                   /\ ret.findings[j].title = JsonTitle(SiteZero(call.sites)[i])

C8_Witness ==
    /\ call.fn = "parse"
    /\ call.variant \in {"dast", "enh"}
    /\ ret.kind = "parsed"
    /\ Len(call.sites) = 2
    /\ Len(call.sites[1].alerts) = 2
    /\ Len(call.sites[2].alerts) = 1
    /\ HasInstances(call.sites[2].alerts[1])
    /\ ~NonNumericCwe(call.sites[2].alerts[1])
    /\ \A i \in 1..2 : JsonTitle(call.sites[1].alerts[i]) # JsonTitle(call.sites[2].alerts[1])
    /\ Len(ret.findings) = 2
    /\ ret.findings[1].title # ret.findings[2].title

\* C9: every Finding's cwe is a positive integer or the absent marker (0 or
\* None), never a negative integer, whatever the alert's cweid.
C9_CweNeverNegative ==
    (call.fn = "parse" /\ ret # Pending) =>
       \A j \in 1..Len(ret.findings) :
          \/ ret.findings[j].cwe = PyNone
          \/ ret.findings[j].cwe.kind = "int" /\ ret.findings[j].cwe.n >= 0

OwaspLabels(variant) ==
    DictValues(CASE variant = "dast" -> dast_owasp_mapping
                 [] variant = "enh" -> enh_owasp_mapping
                 [] variant = "xml" -> xml_owasp_mapping)

OwaspKeys(variant) ==
    DictKeys(CASE variant = "dast" -> dast_owasp_mapping
               [] variant = "enh" -> enh_owasp_mapping
               [] variant = "xml" -> xml_owasp_mapping)

\* C10: for an input that matches no table key the mapper returns the
\* unmatched marker ("Unknown"/"Other" in the DAST path, None in the alert-name
\* path) and never any other string.
C10_UnmatchedGivesMarker ==
    (call.fn = "owasp" /\ ret # Pending /\ call.text \notin OwaspKeys(call.variant)) =>
       IF call.variant = "dast" THEN ret \in {PyStr("Unknown"), PyStr("Other")}
       ELSE ret = PyNone

C10_Witness ==
    /\ call.fn = "owasp"
    /\ call.variant = "dast"
    /\ call.text \notin OwaspKeys("dast")
    /\ call.text # ""
    /\ ret = PyStr(call.text)

(***************************************************************************)
(* Properties of the upload orchestrator.                                  *)
(***************************************************************************)
CreatedProduct == call.fn = "create_product" /\ ret # Pending

GetProducts(status) == Req("GET", "products", status)

PostProducts(status) == Req("POST", "products", status)

\* C5: create_product_if_not_exists, for a name the search (answered 200)
\* does not return, sends exactly one GET then exactly one POST and, the
\* POST answered 201, returns the id of the product the POST created; for a
\* name the search returns, it sends exactly one GET and no POST and returns
\* the id of the first result.  In each of the three scripts.
C5_ProductGetThenPost ==
    (CreatedProduct /\ call.g = 200)
        => IF call.rem.products = <<>>
           THEN /\ ret.out.calls = <<GetProducts(200), PostProducts(call.p)>>
                /\ call.p = 201 =>
                      /\ ret.out.remote.products # <<>>
                      /\ ret.out.ret = PyIntV(ret.out.remote.products[Len(ret.out.remote.products)])
           ELSE /\ ret.out.calls = <<GetProducts(200)>>
                /\ ret.out.ret = PyIntV(call.rem.products[1])
                /\ ret.out.remote = call.rem

C5_WitnessExisting ==
    /\ CreatedProduct
    /\ call.variant = "xml"
    /\ call.g = 200
    /\ call.rem.products = <<2, 1>>
    /\ ret.out.ret = PyIntV(2)
    /\ Len(ret.out.calls) = 1

C5_Witness ==
    /\ CreatedProduct
    /\ call.g = 200 /\ call.p = 201
    /\ call.rem.products = <<>>
    /\ ret.out.ret = PyIntV(1)
    /\ Len(ret.out.calls) = 2

LastCall == http[Len(http)]

\* the invocation processed one file, sent its import-scan POST last and got 500
OnlyUploadGot500 ==
    /\ pc = "exited"
    /\ script \in Scripts
    /\ Len(files) = 1 /\ idx = 1
    /\ http # <<>>
    /\ LastCall.path = "import-scan" /\ LastCall.status = 500

\* C3: when the import-scan POST of the only file processed receives HTTP
\* 500, the process exits with code 1, in each uploader script.
C3_Upload500ExitsOne == OnlyUploadGot500 => exit_code = 1

C3_Witness == OnlyUploadGot500 /\ script = "dast" /\ exit_code = 0

TodaysEngagements(name, product) ==
    { i \in DOMAIN remote.engagements :
         /\ remote.engagements[i].name = name
         /\ remote.engagements[i].product = product
         /\ startswith(remote.engagements[i].target_start, strftime_date(Today)) }

\* C4: over any sequence of invocations on one day against one remote
\* system, at most one engagement of a given name exists for a given
\* product, whatever the lookup GET answers.
C4_OneEngagementPerNameProductDay ==
    \A i, j \in DOMAIN remote.engagements :
        ( /\ remote.engagements[i].name = remote.engagements[j].name
          /\ remote.engagements[i].product = remote.engagements[j].product
          /\ startswith(remote.engagements[i].target_start, strftime_date(Today))
          /\ startswith(remote.engagements[j].target_start, strftime_date(Today)) )
        => i = j

\* two invocations, the second one's lookup GET answered 500, two engagements
C4_Witness ==
    /\ runs = 2
    /\ \E k \in DOMAIN http :
          http[k].path = "engagements" /\ http[k].method = "GET" /\ http[k].status = 500
    /\ \E name \in EngagementNames, product \in 1..3 :
          Cardinality(TodaysEngagements(name, product)) = 2

(***************************************************************************)
(* Exit codes and error handling of whole invocations.                     *)
(***************************************************************************)
\* an import-scan POST of this invocation was answered 201
UploadSucceeded ==
    \E k \in DOMAIN http : http[k].path = "import-scan" /\ http[k].status = 201

\* the findings the script extracts from a report file it parses
ExtractedNone(file) ==
    /\ Parses(file)
    /\ CASE script = "dast" ->
              IsDastName(file.name) /\ dast_process_findings(file.sites) = <<>>
         [] script = "enh" ->
              /\ IsGlDastReportJson(file.name)
              /\ ~enh_extract_findings(file.sites).raised
              /\ enh_extract_findings(file.sites).findings = <<>>
         [] script = "xml" -> parse_zap_xml_report(file.sites) = <<>>
         [] OTHER -> FALSE

\* a report among the files processed so far yielded zero findings
ZeroFindingsProcessed == \E i \in 1..idx : ExtractedNone(files[i])

\* C11: an invocation exits with code 0 whenever at least one of its report
\* uploads succeeded, and whenever a report it processed yielded zero
\* findings, whatever happened to its other files.
C11_ExitZeroOnSuccessOrNoFindings ==
    (pc = "exited" /\ (UploadSucceeded \/ ZeroFindingsProcessed)) => exit_code = 0

C11_Witness ==
    /\ pc = "exited"
    /\ script = "enh"
    /\ UploadSucceeded
    /\ counters.failed_uploads >= 1
    /\ exit_code = 0

\* the k-th request of the invocation is a creation POST answered by a status
\* other than 201
CreationRefused(k) ==
    /\ http[k].method = "POST"
    /\ http[k].path \in {"products", "engagements"}
    /\ http[k].status \in PostStatuses \ {201}

\* C12: when the product or the engagement creation POST is answered by a
\* status other than 201, the ensure function returns no id, the invocation
\* sends nothing afterwards (no import-scan, no second POST) and the process
\* exits with code 1.
C12_CreationRefusedIsFatal ==
    \A k \in DOMAIN http :
        CreationRefused(k) =>
            /\ k = Len(http)
            /\ pc = "exited" /\ exit_code = 1
            /\ IF http[k].path = "products" THEN product_id = PyNone
               ELSE engagement_id = PyNone

C12_Witness ==
    /\ script = "dast"
    /\ http # <<>>
    /\ CreationRefused(Len(http))
    /\ http[Len(http)].path = "engagements"
    /\ http[Len(http)].status = 200
    /\ product_id # PyNone
    /\ exit_code = 1

InFileLoop == script \in {"dast", "enh"} /\ pc = "files"

\* C13: in the multi-file uploaders, once product and engagement are
\* resolved, each step of the loop takes the next file of the argument list
\* and leaves the run in the loop, whatever the file is and whatever its
\* upload returns; the plain uploader counts every file exactly once; and
\* the run reaches its exit with every file processed.
C13_EveryFileProcessedInOrder ==
    /\ [][ (InFileLoop /\ idx < Len(files))
             => (idx' = idx + 1 /\ files' = files /\ pc' = "files") ]_vars
    /\ []( (script = "enh" /\ engagement_id # PyNone)
             => counters.successful_uploads + counters.failed_uploads = idx )
    /\ [](InFileLoop => <>(pc = "exited" /\ idx = Len(files) /\ exit_code \in {0, 1}))

\* a missing first file, then a file that is uploaded
C13_Witness ==
    /\ pc = "exited"
    /\ script = "dast"
    /\ Len(files) = 2 /\ idx = 2
    /\ ~exists(files[1])
    /\ UploadSucceeded

\* the invocation of an uploader had one report file, which exists but is
\* zero-byte or does not parse
OnlyFileUnparsable ==
    /\ pc = "exited"
    /\ script \in Scripts
    /\ Len(files) = 1 /\ idx = 1
    /\ files[1].kind \in {"malformed", "empty"}

\* C14: a report file that exists but is malformed or zero-byte is no
\* findings and non-fatal: no upload is attempted for it, it is not counted
\* as a failed upload, and by itself it does not make the exit code 1.
C14_UnparsableFileIsNonFatal ==
    OnlyFileUnparsable =>
        /\ \A k \in DOMAIN http : http[k].path # "import-scan"
        /\ counters.failed_uploads = 0
        /\ exit_code = 0

C14_Witness ==
    /\ OnlyFileUnparsable
    /\ script = "enh"
    /\ files[1] = ZapMalformed
    /\ counters.failed_uploads = 1
    /\ exit_code = 1

C14_WitnessXml ==
    /\ OnlyFileUnparsable
    /\ script = "xml"
    /\ files[1] = XmlEmpty
    /\ exit_code = 1

\* C15: a non-2xx answer to a request makes the enclosing function return
\* its failure value; a product lookup GET answered 500 ends the function
\* with None and no creation POST.
C15_Non2xxGivesSentinel ==
    CreatedProduct =>
        /\ call.g = 500 =>
              /\ ret.out.calls = <<GetProducts(500)>>
              /\ ret.out.ret = PyNone
        /\ ret.out.calls[Len(ret.out.calls)].status = 500 => ret.out.ret = PyNone

C15_Witness ==
    /\ CreatedProduct
    /\ call.g = 500 /\ call.p = 201
    /\ ret.out.calls = <<GetProducts(500), PostProducts(201)>>
    /\ ret.out.ret # PyNone

\* C16: no exception escapes a script: every invocation ends through its
\* own exit path, never in a traceback.
C16_NoExceptionEscapes == ~traceback

C16_Witness ==
    /\ traceback
    /\ script = "enh"
    /\ pc = "exited" /\ exit_code = 1
    /\ http = <<Req("GET", "products", NoResponse)>>

C16_WitnessPlain ==
    /\ traceback
    /\ script = "plain"
    /\ files = <<GitleaksMissing>>
    /\ http = <<>>

(***************************************************************************)
(* Properties of the mappers and of the XML extractor (SpecFn).            *)
(***************************************************************************)
Called(fn, variant) == call.fn = fn /\ call.variant = variant /\ ret # Pending

\* C17: map_zap_risk_to_severity of the DAST script is the table High ->
\* Critical, Medium -> High, Low -> Medium, Informational -> Low, and Info
\* for every other input, "Critical" and the empty string included.
C17_DastSeverityTable ==
    Called("severity", "dast") =>
        ret = PyStr(CASE call.label = "High" -> "Critical"
                      [] call.label = "Medium" -> "High"
                      [] call.label = "Low" -> "Medium"
                      [] call.label = "Informational" -> "Low"
                      [] OTHER -> "Info")

C17_Witness ==
    /\ Called("severity", "dast")
    /\ call.label = "Critical"
    /\ ret = PyStr("Info")

\* the level the stated rule gives a risk code: High from 4, Medium for 3,
\* Low for 2, Informational otherwise and for an absent or non-numeric code
StatedRiskLevel(code) ==
    IF ~PyInt(code).ok THEN "Informational"
    ELSE IF PyInt(code).n >= 4 THEN "High"
    ELSE IF PyInt(code).n = 3 THEN "Medium"
    ELSE IF PyInt(code).n = 2 THEN "Low"
    ELSE "Informational"

\* C18: _map_risk_code_to_level gives High from 4, Medium for 3, Low for 2
\* and Informational otherwise; an absent or non-numeric code does not fail
\* and gives Informational, hence severity Info.
C18_RiskCodeLevels ==
    Called("risk_code", "xml") =>
        /\ ret.level = StatedRiskLevel(call.code)
        /\ ~PyInt(call.code).ok => ret.severity = "Info"

C18_Witness ==
    /\ Called("risk_code", "xml")
    /\ call.code = <<"x">>
    /\ ret.level = "Low" /\ ret.severity = "Low"

HasPluginId(alert) == Get(alert, "pluginid", <<>>) # <<>>

\* High from 4, Medium for 3, Low otherwise
StatedCodeConfidence(code) ==
    IF PyInt(code).n >= 4 THEN "High"
    ELSE IF PyInt(code).n = 3 THEN "Medium"
    ELSE "Low"

\* High for High, Medium for Medium, else Medium with a plugin id, else Low
InferredConfidence(level, alert) ==
    IF level = "High" THEN "High"
    ELSE IF level = "Medium" THEN "Medium"
    ELSE IF HasPluginId(alert) THEN "Medium"
    ELSE "Low"

\* C19 as stated: confidence from a numeric code is High from 4, Medium for
\* 3, Low otherwise; without a code (DAST JSON path) it is inferred from the
\* severity of the finding, then from the plugin id; always one of High,
\* Medium, Low.
C19_ConfidenceFromFindingSeverity ==
    /\ (Called("confidence", "xml") /\ PyInt(call.code).ok)
          => ret = PyStr(StatedCodeConfidence(call.code))
    /\ Called("confidence", "xml") => ret.s \in ConfidenceEnum
    /\ Called("confidence", "dast") =>
          ret = PyStr(InferredConfidence(
                    dast_map_zap_risk_to_severity(Get(call.alert, "risk", "Low")),
                    call.alert))
    /\ Called("parse", "dast") =>
          \A j \in 1..Len(ret.findings) :
             /\ ret.findings[j].confidence \in ConfidenceEnum
             /\ ret.findings[j].severity = "High" => ret.findings[j].confidence = "High"
             /\ ret.findings[j].severity = "Medium" => ret.findings[j].confidence = "Medium"

\* C19 as amended: the same, the inference being from the raw risk label of
\* the alert (default Low), not from the severity it is mapped to.
C19_ConfidenceFromRiskLabel ==
    /\ (Called("confidence", "xml") /\ PyInt(call.code).ok)
          => ret = PyStr(StatedCodeConfidence(call.code))
    /\ Called("confidence", "xml") => ret.s \in ConfidenceEnum
    /\ Called("confidence", "dast") =>
          ret = PyStr(InferredConfidence(Get(call.alert, "risk", "Low"), call.alert))
    /\ Called("parse", "dast") =>
          \A j \in 1..Len(ret.findings) :
             /\ ret.findings[j].confidence \in ConfidenceEnum
             /\ \E i \in 1..Len(SiteZero(call.sites)) :
                   LET alert == SiteZero(call.sites)[i] IN
                   /\ ret.findings[j].title = JsonTitle(alert)
                   /\ ret.findings[j].confidence
                        = InferredConfidence(Get(alert, "risk", "Low"), alert)

\* a Medium risk alert: severity High, confidence Medium
C19_Witness ==
    /\ Called("confidence", "dast")
    /\ call.alert = AlertXfo
    /\ dast_map_zap_risk_to_severity(call.alert.risk) = "High"
    /\ ret = PyStr("Medium")

HasNameOrPlugin(alert) == Truthy(alert, "name", "") \/ Truthy(alert, "pluginid", <<>>)

\* C20: in the XML path an alertitem yields no Finding if and only if it
\* lacks both a name and a plugin id: the findings are those of the
\* alertitems that have a name or a plugin id, in document order.
C20_XmlAbsentIffNoNameNoPlugin ==
    Parsed("xml") =>
        Len(ret.findings) = Len(SelectSeq(AllSiteAlerts(call.sites), HasNameOrPlugin))

C20_Witness ==
    /\ Parsed("xml")
    /\ Len(AllSiteAlerts(call.sites)) = 2
    /\ AllSiteAlerts(call.sites)[1] = AlertBare
    /\ AllSiteAlerts(call.sites)[2] = AlertSqli
    /\ ret.findings = <<>>

TagsAsStated(alert, tags) ==
    /\ Len(tags) >= 4
    /\ SubSeq(tags, 1, 4) = BaseTags
    /\ (\E i \in 5..Len(tags) : tags[i].tag = "owasp-") <=> Truthy(alert, "reference", "")
    /\ (\E i \in 5..Len(tags) : tags[i].tag = "risk-") <=> Truthy(alert, "risk", "")
    /\ (\E i \in 5..Len(tags) : tags[i].tag = "plugin-") <=> Truthy(alert, "pluginid", <<>>)
    /\ \A i \in 5..Len(tags) :
          /\ tags[i].tag \in {"owasp-", "risk-", "plugin-"}
          /\ \A j \in 5..Len(tags) : tags[j].tag = tags[i].tag => j = i
          /\ tags[i].tag = "owasp-" =>
                tags[i].category = slug(extract_owasp_category(alert.reference))
          /\ tags[i].tag = "risk-" => tags[i].level = lower(alert.risk)
          /\ tags[i].tag = "plugin-" => tags[i].id = alert.pluginid

\* C21: the tags of a DAST finding are the four base tags dast, zap,
\* automated, dynamic-analysis, then owasp-<slug> exactly when the alert has
\* a reference (from which the category was derived), risk-<level> exactly
\* when it has a risk, plugin-<id> exactly when it has a plugin id, and
\* nothing else.
C21_TagsOfFinding ==
    /\ Called("tags", "dast") => TagsAsStated(call.alert, ret.tags)
    /\ Parsed("dast") =>
          \A j \in 1..Len(ret.findings) :
             \E i \in 1..Len(dast_site_alerts(call.sites)) :
                /\ HasInstances(dast_site_alerts(call.sites)[i])
                /\ ret.findings[j].title =
                      Get(dast_site_alerts(call.sites)[i], "name", "Unknown ZAP Finding")
                /\ TagsAsStated(dast_site_alerts(call.sites)[i], ret.findings[j].tags)

\* a finding with all seven tags, its category label turned into a slug
C21_Witness ==
    /\ Parsed("dast")
    /\ \E j \in 1..Len(ret.findings) :
          ret.findings[j].tags =
             BaseTags \o << [tag |-> "owasp-", category |-> "insecure-deserialization"],
                            [tag |-> "risk-", level |-> "high"],
                            [tag |-> "plugin-", id |-> <<"4", "0">>] >>

\* an alert without reference and plugin id: base tags and the risk only
C21_WitnessNoPlugin ==
    /\ Called("tags", "dast")
    /\ ~Truthy(call.alert, "pluginid", <<>>)
    /\ ret.tags = BaseTags \o << [tag |-> "risk-", level |-> "bogus"] >>

\* the non-empty ones of method, param, attack, evidence, in that order
StatedDetails(instance) ==
    SelectSeq(TechFields, LAMBDA f : Truthy(instance, f[1], ""))

DescriptionAsStated(alert, instance, description) ==
    LET details == StatedDetails(instance)
        n == Len(details)
        block == IF n = 0 THEN 0 ELSE 1 + 4 * n
    IN  /\ Len(description) =
              1 + block + (IF Truthy(alert, "reference", "") THEN 2 ELSE 0)
        /\ description[1] = Get(alert, "desc", "")
        /\ n > 0 => description[2] = "\n\n**Technical Details:**\n"
        /\ \A k \in 1..n :
              SubSeq(description, 4 * k - 1, 4 * k + 2) =
                 << "- ", details[k][2], instance[details[k][1]], "\n" >>
        /\ Truthy(alert, "reference", "") =>
              SubSeq(description, 2 + block, 3 + block) =
                 << "\n\n**Reference:** ", alert.reference >>

\* C22: the description of a DAST finding is the alert's base description,
\* then a Technical Details block present exactly when one of method, param,
\* attack, evidence of the first instance is non-empty and listing exactly
\* the non-empty ones in that order, then the reference exactly when the
\* alert has one; only the first instance contributes.
C22_DescriptionOfFinding ==
    /\ Called("description", "dast") =>
          DescriptionAsStated(call.alert, call.instance, ret.description)
    /\ Parsed("dast") =>
          \A j \in 1..Len(ret.findings) :
             \E i \in 1..Len(dast_site_alerts(call.sites)) :
                /\ HasInstances(dast_site_alerts(call.sites)[i])
                /\ ret.findings[j].title =
                      Get(dast_site_alerts(call.sites)[i], "name", "Unknown ZAP Finding")
                /\ DescriptionAsStated(dast_site_alerts(call.sites)[i],
                                       dast_site_alerts(call.sites)[i].instances[1],
                                       ret.findings[j].description)

\* a finding of an alert with two instances: the details of the first, the
\* attack left out, and the reference
C22_Witness ==
    /\ Parsed("dast")
    /\ \E j \in 1..Len(ret.findings), i \in 1..Len(dast_site_alerts(call.sites)) :
          /\ Len(Get(dast_site_alerts(call.sites)[i], "instances", <<>>)) = 2
          /\ ret.findings[j].title = dast_site_alerts(call.sites)[i].name
          /\ ret.findings[j].description =
                << "The response can be framed", "\n\n**Technical Details:**\n",
                   "- ", "HTTP Method: ", "GET", "\n",
                   "- ", "Parameter: ", "id", "\n",
                   "- ", "Evidence: ", "ev", "\n",
                   "\n\n**Reference:** ", "https://owasp.org/x" >>

\* no instance detail and no reference: the base description alone
C22_WitnessBase ==
    /\ Called("description", "dast")
    /\ StatedDetails(call.instance) = <<>>
    /\ ~Truthy(call.alert, "reference", "")
    /\ ret.description = << Get(call.alert, "desc", "") >>

\* an alert that every extractor is stated to turn into a Finding
PlainlyUsable(alert) ==
    /\ HasInstances(alert)
    /\ HasNameAndPlugin(alert)
    /\ ~NonNumericCwe(alert)

ScannedAlerts(variant, sites) ==
    IF variant = "xml" THEN AllSiteAlerts(sites) ELSE SiteZero(sites)

\* C23: the findings come in the document order of their alerts and are not
\* deduplicated: from a report whose scanned alerts are all usable, each
\* extractor returns one Finding per alert, in order, identical alerts
\* included.
C23_DocumentOrderNoDedup ==
    \A v \in Variants :
       ( /\ Parsed(v)
         /\ \A i \in 1..Len(ScannedAlerts(v, call.sites)) :
               PlainlyUsable(ScannedAlerts(v, call.sites)[i]) )
       => TitlesOf(ret.findings) =
             [ i \in 1..Len(ScannedAlerts(v, call.sites)) |->
                  JsonTitle(ScannedAlerts(v, call.sites)[i]) ]

\* the JSON extractors keep the order and both copies of a repeated alert
C23_JsonOrderNoDedup ==
    \A v \in {"dast", "enh"} :
       ( /\ Parsed(v)
         /\ \A i \in 1..Len(ScannedAlerts(v, call.sites)) :
               PlainlyUsable(ScannedAlerts(v, call.sites)[i]) )
       => TitlesOf(ret.findings) =
             [ i \in 1..Len(ScannedAlerts(v, call.sites)) |->
                  JsonTitle(ScannedAlerts(v, call.sites)[i]) ]

\* two identical alerts around a different one: three findings, two equal
C23_Witness ==
    /\ Parsed("dast")
    /\ Len(SiteZero(call.sites)) = 3
    /\ SiteZero(call.sites)[1] = SiteZero(call.sites)[3]
    /\ SiteZero(call.sites)[1] # SiteZero(call.sites)[2]
    /\ Len(ret.findings) = 3
    /\ ret.findings[1] = ret.findings[3]
    /\ ret.findings[2].title = JsonTitle(SiteZero(call.sites)[2])

CreatedEngagement == call.fn = "create_engagement" /\ ret # Pending

\* the engagements the search GET returned: those of the name and product,
\* when the GET was answered 200
SearchReturned ==
    IF call.g = 200
    THEN SelectSeq(call.rem.engagements,
                   LAMBDA e : e.name = call.name /\ e.product = call.product)
    ELSE <<>>

StartsToday(e) == e.target_start[1] = Today

PostsOf(calls) == SelectSeq(calls, LAMBDA r : r.method = "POST")

\* the function returned the id of an engagement that existed, and sent no POST
Reused ==
    /\ PostsOf(ret.out.calls) = <<>>
    /\ \E i \in 1..Len(call.rem.engagements) :
          ret.out.ret = PyIntV(call.rem.engagements[i].id)

\* C24: the engagement ensure function returns the id of an existing
\* engagement without any POST if and only if the name+product search
\* returned a match whose target_start is of today, and the id is that
\* match's; when the answered search returned matches of other dates only,
\* or none, it sends exactly one creation POST and, the POST answered 201,
\* returns the id of the engagement created.  In each of the three scripts.
C24_ReuseIffTodaysMatch ==
    CreatedEngagement =>
       /\ Reused <=> \E i \in 1..Len(SearchReturned) : StartsToday(SearchReturned[i])
       /\ Reused => \E i \in 1..Len(SearchReturned) :
                       /\ StartsToday(SearchReturned[i])
                       /\ ret.out.ret = PyIntV(SearchReturned[i].id)
                       /\ ret.out.remote = call.rem
       /\ ( /\ call.g # NoResponse
            /\ \A i \in 1..Len(SearchReturned) : ~StartsToday(SearchReturned[i]) )
          => /\ PostsOf(ret.out.calls) = <<Req("POST", "engagements", call.p)>>
             /\ call.p = 201 =>
                   /\ Len(ret.out.remote.engagements) = Len(call.rem.engagements) + 1
                   /\ ret.out.ret =
                        PyIntV(ret.out.remote.engagements[Len(ret.out.remote.engagements)].id)
             /\ call.p # 201 => ret.out.ret = PyNone /\ ret.out.remote = call.rem

\* yesterday's engagement of the same name and product is not reused
C24_Witness ==
    /\ CreatedEngagement
    /\ call.g = 200 /\ call.p = 201
    /\ Len(SearchReturned) = 1
    /\ ~StartsToday(SearchReturned[1])
    /\ Len(ret.out.calls) = 2
    /\ ret.out.ret = PyIntV(2)

\* today's engagement is reused, the older one passed over
C24_WitnessReuse ==
    /\ CreatedEngagement
    /\ Len(SearchReturned) = 2
    /\ ~StartsToday(SearchReturned[1])
    /\ Reused
    /\ ret.out.ret = PyIntV(2)

Uploaded == call.fn = "upload" /\ ret # Pending

\* the upload function reported success: the response dict of
\* upload_findings, True of the others
ReportedSuccess ==
    IF call.variant = "dast" THEN ret.out.ret.kind = "dict" ELSE ret.out.ret = TRUE

\* the failure result: None of upload_findings, False of the others
ReportedFailure ==
    IF call.variant = "dast" THEN ret.out.ret = PyNone ELSE ret.out.ret = FALSE

Got201 ==
    \E i \in 1..Len(ret.out.calls) :
       ret.out.calls[i].path = "import-scan" /\ ret.out.calls[i].status = 201

\* C25: an upload function reports success if and only if its import-scan
\* POST was answered 201; every other status, 200 and 204 included, and an
\* exception of the call yield None (upload_findings) or False, and no
\* exception leaves the function.
C25_SuccessIffCreated ==
    Uploaded =>
       /\ ReportedSuccess <=> Got201
       /\ ~Got201 => ReportedFailure
       /\ ~ret.out.raised

\* the POST answered 200: failure
C25_Witness ==
    /\ Uploaded
    /\ call.variant = "enh"
    /\ ret.out.calls = <<Upload(200, 1)>>
    /\ ret.out.ret = FALSE

\* the POST raised: None
C25_WitnessException ==
    /\ Uploaded
    /\ call.variant = "dast"
    /\ ret.out.calls = <<Upload(NoResponse, 1)>>
    /\ ret.out.ret = PyNone

C25_WitnessSuccess ==
    /\ Uploaded
    /\ call.variant = "xml"
    /\ call.u = 201
    /\ ret.out.ret = TRUE

UploadsIn(h) == SelectSeq(h, LAMBDA r : r.path = "import-scan")

LookupsIn(h) == SelectSeq(h, LAMBDA r : r.path \in {"products", "engagements"})

\* the place of a request in the sequence of an invocation
Rank(r) ==
    CASE r.path = "test_types" -> 0
      [] r.path = "products" -> 1
      [] r.path = "engagements" -> 2
      [] r.path = "import-scan" -> 3

\* the files parsed so far are the files the loop has gone through
FilesParsed == idx

C26_Order ==
    script \in Scripts =>
       /\ \A i, j \in 1..Len(http) : i < j => Rank(http[i]) <= Rank(http[j])
       /\ \A path \in {"products", "engagements"}, m \in {"GET", "POST"} :
             Len(SelectSeq(http, LAMBDA r : r.path = path /\ r.method = m)) <= 1
       /\ script \in {"dast", "enh"} =>
             /\ FilesParsed > 0 => product_id # PyNone /\ engagement_id # PyNone
             /\ Len(UploadsIn(http)) <= FilesParsed
       /\ script = "xml" =>
             ( http # <<>> => /\ FilesParsed = Len(files)
                              /\ parse_zap_xml_report(files[1].sites) # <<>> )

C26_OneUploadPerFile ==
    ( /\ script' \in Scripts
      /\ runs' = runs
      /\ Len(UploadsIn(http')) # Len(UploadsIn(http)) )
    => /\ idx' = idx + 1
       /\ http' = Append(http, http'[Len(http')])
       /\ http'[Len(http')].path = "import-scan"

C26_WitnessLookupFirst ==
    /\ script = "enh" /\ pc = "engagement"
    /\ LookupsIn(http) # <<>>
    /\ Len(files) > 0 /\ FilesParsed = 0
    /\ ~Parses(files[1])

\* the index in http of the first request to a path, 0 when there is none
FirstOf(path) ==
    IF \E i \in 1..Len(http) : http[i].path = path
    THEN CHOOSE i \in 1..Len(http) :
            /\ http[i].path = path
            /\ \A j \in 1..(i - 1) : http[j].path # path
    ELSE 0

C27_ResolvedBeforeUpload ==
    (script \in Scripts /\ UploadsIn(http) # <<>>) =>
       /\ product_id # PyNone /\ product_id.n > 0
       /\ engagement_id # PyNone /\ engagement_id.n > 0
       /\ 0 < FirstOf("products")
       /\ FirstOf("products") < FirstOf("engagements")
       /\ FirstOf("engagements") < FirstOf("import-scan")
       /\ \A i \in 1..Len(http) :
             http[i].path = "import-scan" => http[i].engagement = engagement_id.n

C27_IdsReadOnly ==
    (pc = "files" /\ script \in Scripts /\ runs' = runs) =>
       product_id' = product_id /\ engagement_id' = engagement_id

\* C27: in each class-based uploader an import-scan POST is sent only after
\* the product id and the engagement id were resolved, by requests sent
\* earlier in the same invocation, to non-empty values; every import-scan
\* request carries that engagement id, and neither id is assigned again
\* once the files are gone through.
C27_UploadsCarryResolvedEngagement ==
    []C27_ResolvedBeforeUpload /\ [][C27_IdsReadOnly]_vars

\* two files uploaded to the engagement the invocation found as second of
\* the remote system
C27_Witness ==
    /\ script = "enh" /\ pc = "exited"
    /\ Len(UploadsIn(http)) = 2
    /\ engagement_id = PyIntV(2)
    /\ UploadsIn(http)[1].engagement = 2 /\ UploadsIn(http)[2].engagement = 2

\* C28: the severity mapper of dast-defectdojo-enhanced and the mapper of
\* upload-reports-enhanced and of the XML uploader return different
\* severities for every risk label, known or unknown.
C28_MappersDisagreeEverywhere ==
    /\ Called("severity", "dast") =>
          /\ ret # PyStr(enh_map_zap_risk_to_severity(call.label))
          /\ ret # PyStr(xml_severity_of(call.label))
    /\ Called("severity", "enh") =>
          ret # PyStr(dast_map_zap_risk_to_severity(call.label))
    /\ Called("severity", "xml") =>
          ret # PyStr(dast_map_zap_risk_to_severity(call.label))

\* High gives Critical against High
C28_Witness ==
    /\ Called("severity", "dast")
    /\ call.label = "High"
    /\ ret = PyStr("Critical")
    /\ enh_map_zap_risk_to_severity(call.label) = "High"
    /\ xml_severity_of(call.label) = "High"

\* an unknown label gives Low against Info
C28_WitnessUnknown ==
    /\ Called("severity", "enh")
    /\ call.label = "Bogus"
    /\ ret = PyStr("Low")
    /\ dast_map_zap_risk_to_severity(call.label) = "Info"

\* Info itself gives Info against Low
C28_WitnessInfo ==
    /\ Called("severity", "dast")
    /\ call.label = "Info"
    /\ ret = PyStr("Info")
    /\ enh_map_zap_risk_to_severity(call.label) = "Low"

\* the XML file was read and the parse gave nothing: it failed (None) or
\* returned the empty list
ParseYieldedNothing(file) ==
    /\ exists(file) /\ file.kind # "empty"
    /\ ~Parses(file) \/ parse_zap_xml_report(file.sites) = <<>>

\* C29: in the XML uploader, when the parse of the file yields no findings
\* (the empty list, or None of a failed parse), process_zap_xml_upload
\* sends no request at all, writes no summary file and returns True; the
\* remote system is left as it was.
C29_NoFindingsNoRequests ==
    (Called("workflow", "xml") /\ ParseYieldedNothing(call.file)) =>
       /\ ret.out.calls = <<>>
       /\ ~ret.summary
       /\ ret.out.ret = TRUE
       /\ ~ret.out.raised
       /\ ret.out.remote = call.rem

\* a file that does not parse, a remote system without the product: True,
\* and still no product
C29_Witness ==
    /\ Called("workflow", "xml")
    /\ call.file = XmlMalformed
    /\ call.rem.products = <<>>
    /\ ret.out.ret = TRUE
    /\ ret.out.calls = <<>>
    /\ ret.out.remote.products = <<>>

\* a report without sites: the empty list
C29_WitnessEmptyList ==
    /\ Called("workflow", "xml")
    /\ call.file = XmlNoSites
    /\ ret.out.ret = TRUE
    /\ ret.out.calls = <<>>

\* upload_all_reports is in its loop, or has left it
EnhLoopEntered == script = "enh" /\ engagement_id # PyNone /\ pc \in {"files", "exited"}

FilesCounted == counters.successful_uploads + counters.failed_uploads

C30_CountedOnce ==
    EnhLoopEntered =>
       /\ FilesCounted = idx
       /\ pc = "exited" =>
             /\ FilesCounted = Len(files)
             /\ exit_code = 0 <=> counters.successful_uploads > 0

C30_OneCountPerFile ==
    (script = "enh" /\ pc = "files" /\ idx' = idx + 1) =>
       /\ \/ /\ counters'.successful_uploads = counters.successful_uploads + 1
             /\ counters'.failed_uploads = counters.failed_uploads
          \/ /\ counters'.successful_uploads = counters.successful_uploads
             /\ counters'.failed_uploads = counters.failed_uploads + 1
       /\ files[idx'].kind \in {"missing", "empty"} =>
             /\ counters'.failed_uploads = counters.failed_uploads + 1
             /\ http' = http

\* C30: in upload_all_reports, once product and engagement are resolved,
\* every report file is counted exactly once, as successful or as failed:
\* successful_uploads + failed_uploads is the number of files gone through
\* so far and, at the end, the length of the file list; a missing or empty
\* file is counted as failed and no request is sent for it; the function
\* returns True (exit status 0) if and only if successful_uploads > 0.
C30_EveryFileCountedOnce == []C30_CountedOnce /\ [][C30_OneCountPerFile]_vars

\* one file uploaded, one empty file counted as failed with no request
C30_Witness ==
    /\ script = "enh" /\ pc = "exited"
    /\ Len(files) = 2
    /\ \E i \in 1..2 : files[i].kind = "empty"
    /\ counters.successful_uploads = 1 /\ counters.failed_uploads = 1
    /\ Len(UploadsIn(http)) = 1
    /\ exit_code = 0

\* a missing file counted as failed, nothing sent for it
C30_WitnessMissing ==
    /\ script = "enh" /\ pc = "exited"
    /\ files = <<GitleaksMissing>>
    /\ counters.successful_uploads = 0 /\ counters.failed_uploads = 1
    /\ UploadsIn(http) = <<>>
    /\ exit_code = 1

====
